---- MODULE Spec2Model ----
(***************************************************************************)
(* A model of the table-generation engine of the parser generator:        *)
(*   - src/src/grammar/grammar.ts    Term, Precedence, Rule                *)
(*   - src/src/grammar/automaton.ts  Pos, State.addAction, closure,        *)
(*                                   computeFirst, buildFullAutomaton,     *)
(*                                   collapseAutomaton                     *)
(*   - src/src/build.ts              inlineRules, mergeRules,              *)
(*                                   TokenSet.buildTokenGroups             *)
(* Spec drives State.addAction directly and buildAutomaton on a catalogue  *)
(* of grammars; SpecFirst, SpecSimplify and SpecTokens drive computeFirst, *)
(* simplifyRules and buildTokenGroups.  The variables of the parts a       *)
(* specification does not drive stay at their idle value.                  *)
(***************************************************************************)
EXTENDS Integers, Sequences, FiniteSets, TLC

VARIABLES
  run,        \* what this run drives: "addAction" or "automaton"
  \* --- State.addAction driven directly ---
  state,      \* the State object the calls act on
  calls,      \* number of addAction calls made so far
  last,       \* the last call: its arguments, its outcome, the state before it
  \* --- buildAutomaton on a grammar ---
  grammar,    \* index of the grammar in Grammars
  phase,      \* "start", "built", "raised", "collapsing", "collapsed"
  full,       \* the states returned by buildFullAutomaton
  raised,     \* the Error buildFullAutomaton threw (NoError: none)
  passes,     \* turns of the loop of collapseAutomaton made so far
  curConflicts, \* collapseAutomaton's array `conflicts` (flat pairs of old ids)
  curMapping, \* the array `mapping` of the last turn
  curConflicting, \* the array `conflicting` of the last turn
  collapsed,  \* the array `newStates` of the last turn
  \* --- the two automata run as LR parsers on one input ---
  word,       \* the terminals read so far
  liveFull,   \* the stacks of the full automaton after reading word
  liveCollapsed, \* the stacks of the collapsed automaton after reading word
  \* --- computeFirst on a rule list, and derivations of that rule list ---
  firstInput, \* the rules and terms computeFirst is called with
  firstTable, \* computeFirst's `table`
  firstPhase, \* "loop" inside for (;;), "returned" after it
  origin,     \* the non-terminal a derivation started from ("": none yet)
  form,       \* the sentential form the derivation has reached
  \* --- the Builder's rule list and simplifyRules ---
  astRules,   \* the rule declarations of the grammar file, by name
  topExpr,    \* the choices of the top expression
  mainSkip,   \* the choices of the @skip expression (none: no @skip)
  builtRules, \* Builder.rules
  simplified, \* the rule list getParser received from simplifyRules
  simplifyPhase, \* "ast", "defined" (rules built), "simplified"
  \* --- TokenSet.buildTokenGroups ---
  tokInput,   \* states, skipStates, tokenOrigins, precedenceRelations, conflicts found
  tokConflicts, \* buildTokenGroups' `conflicts`
  tokUsedPrec, \* `usedPrec`
  tokGroups,  \* `groups`: the tokens of each group
  tokAssigned, \* the tokenGroup of each state checked so far (-1: none)
  tokPhase,   \* "start", "checking", "returned", "raised"
  tokRaised,  \* the message of the error raised ("": none)
  \* --- TokenSet.takePrecedences ---
  precAst,    \* ast.precedences: the blocks of @precedence, each a list of items
  precedenceRelations, \* TokenSet.precedenceRelations
  precRel,    \* takePrecedences' `rel`
  precOrdered, \* takePrecedences' `ordered`
  precPhase,  \* "start", "ordering", "ordered" (precedences set), "raised"
  \* --- Builder.resolveSpecialization ---
  specialized, \* Builder.specialized: the table of each base terminal
  tokenOrigins, \* Builder.tokenOrigins: the pairs <<token, base terminal>>
  madeTerminals, \* the terminals makeTerminal has made
  specCalls,  \* the number of calls made
  specLast,   \* the last call: its arguments, result and the table before it
  \* --- TokenSet.build on a character set ---
  charSet,    \* the SetExpression: its ranges [a, b) and whether it is inverted
  pendingRanges, \* the ranges the loop of line 1027 has not reached yet
  edges,      \* the edges added so far: [from, low, hi, to], low <= unit < hi
  hops,       \* the number of intermediate states made
  setPhase,   \* "start" before the loop, "ranges" in and after it
  \* --- a DataBuilder ---
  dbData,     \* DataBuilder.data
  dbStored,   \* the storeArray calls made: the array given, the offset returned
  \* --- computeGotoTable ---
  gotoStates, \* the states given: each an id and its goto entries [term, target]
  gotoTable,  \* the array returned (none: not called yet)
  \* --- TokenSet.getToken on the rules of a @tokens block ---
  tokenRules, \* TokenSet.rules: name, params and expression of each rule
  tokenSet    \* the TokenSet after getToken: states made, edges, building, error

addVars == <<state, calls, last>>

lrVars == <<grammar, phase, full, raised, passes, curConflicts, curMapping, curConflicting, collapsed>>

parseVars == <<word, liveFull, liveCollapsed>>

firstVars == <<firstInput, firstTable, firstPhase, origin, form>>

simplifyVars == <<astRules, topExpr, mainSkip, builtRules, simplified, simplifyPhase>>

tokenVars ==
  <<tokInput, tokConflicts, tokUsedPrec, tokGroups, tokAssigned, tokPhase, tokRaised>>

precVars == <<precAst, precedenceRelations, precRel, precOrdered, precPhase>>

specializeVars == <<specialized, tokenOrigins, madeTerminals, specCalls, specLast>>

charSetVars == <<charSet, pendingRanges, edges, hops, setPhase>>

dataVars == <<dbData, dbStored>>

gotoVars == <<gotoStates, gotoTable>>

tokenSetVars == <<tokenRules, tokenSet>>

tableVars == <<dataVars, gotoVars, tokenSetVars>>

builderVars == <<precVars, specializeVars, charSetVars, tableVars>>

(***************************************************************************)
(* Generic helpers over sequences.                                         *)
(***************************************************************************)
none == <<>>

Range(s) == {s[i] : i \in 1..Len(s)}

includes(array, value) == \E i \in 1..Len(array) : array[i] = value

\* Array.prototype.splice(i, 1) with a 1-based index
splice(array, i) == [k \in 1..(Len(array) - 1) |-> IF k < i THEN array[k] ELSE array[k + 1]]

Sign(n) == IF n > 0 THEN 1 ELSE IF n < 0 THEN -1 ELSE 0

\* the least member of a set of indices, `otherwise` when it has none
LeastOf(indices, otherwise) ==
  IF indices = {} THEN otherwise ELSE CHOOSE j \in indices : \A x \in indices : j <= x

(***************************************************************************)
(* grammar.ts: Precedence.  A precedence is a record                       *)
(* [associativity, group, precedence]; a missing associativity is "null". *)
(***************************************************************************)
Precedence(associativity, group, precedence) ==
  [associativity |-> associativity, group |-> group, precedence |-> precedence]

PrecedenceEq(a, b) ==
  a.associativity = b.associativity /\ a.group = b.group /\ a.precedence = b.precedence

(***************************************************************************)
(* automaton.ts: actions.  Shift(term, target) holds the id of the target *)
(* state, Reduce(term, rule) the index of the rule.                        *)
(***************************************************************************)
Shift(term, target) == [type |-> "shift", term |-> term, target |-> target, rule |-> 0]

Reduce(term, rule) == [type |-> "reduce", term |-> term, target |-> 0, rule |-> rule]

isShift(action) == action.type = "shift"

\* Shift.eq / Reduce.eq: same class and same target (same rule); the term is
\* not compared
ActionEq(action, other) ==
  IF isShift(action) THEN isShift(other) /\ other.target = action.target
  ELSE ~isShift(other) /\ other.rule = action.rule

(***************************************************************************)
(* automaton.ts: State.                                                    *)
(***************************************************************************)
NewState(id, set) ==
  [id |-> id, set |-> set, terminals |-> none, terminalPrec |-> none,
   goto |-> none, ambiguous |-> FALSE]

\* prev.find(x => x.group == p.group): index of the first entry of prev in
\* the group of p, 0 when there is none
FindMatch(prev, p) ==
  IF \E k \in 1..Len(prev) : prev[k].group = p.group
  THEN CHOOSE k \in 1..Len(prev) :
         prev[k].group = p.group /\ \A j \in 1..(k - 1) : prev[j].group # p.group
  ELSE 0

\* `p.precedence < 0`: the new entry marks an intentional, allowed conflict
IntentionalNever(p) == FALSE

Intentional(p) == p.precedence < 0

\* lines 123-125, mutated: the levels are compared the other way round
OverrideFlipped(match, p, action) ==
  LET override == p.precedence - match.precedence
  IN IF override = 0 /\ isShift(action) /\ p.associativity # "null"
     THEN (IF p.associativity = "left" THEN 1 ELSE -1)
     ELSE override

\* lines 123-125, mutated: the test `override == 0 &&` is lost, so that
\* associativity decides against a Shift whatever the levels are
OverrideAssocFirst(match, p, action) ==
  LET override == match.precedence - p.precedence
  IN IF isShift(action) /\ p.associativity # "null"
     THEN (IF p.associativity = "left" THEN 1 ELSE -1)
     ELSE override

\* lines 123-125, mutated: associativity also consulted when the existing
\* action is a Reduce
OverrideAnyOrder(match, p, action) ==
  LET override == match.precedence - p.precedence
  IN IF override = 0 /\ p.associativity # "null"
     THEN (IF p.associativity = "left" THEN 1 ELSE -1)
     ELSE override

\* lines 123-125: positive means the new action overrides, 0 means conflict
Override(match, p, action) ==
  LET override == match.precedence - p.precedence
  IN IF override = 0 /\ isShift(action) /\ p.associativity # "null"
     THEN (IF p.associativity = "left" THEN 1 ELSE -1)
     ELSE override

\* The loop `for (let p of prec)` of addAction (lines 119-134) for the
\* existing action `action` with precedence list prev, from entry k on:
\*   "skip"     continue check  (intentional conflict, both actions stay)
\*   "remove"   the existing action is spliced out and the scan goes on
\*   "keep"     return true, the new action is dropped
\*   "conflict" no entry decided
RECURSIVE Decide(_, _, _, _)
Decide(action, prev, prec, k) ==
  IF k > Len(prec) THEN "conflict"
  ELSE LET p == prec[k]
           m == FindMatch(prev, p)
       IN IF m = 0 THEN Decide(action, prev, prec, k + 1)
          ELSE IF Intentional(p) THEN "skip"
          ELSE LET override == Override(prev[m], p, action)
               IN IF override > 0 THEN "remove"
                  ELSE IF override < 0 THEN "keep"
                  ELSE Decide(action, prev, prec, k + 1)

\* line 117 dropped: the flag is never set
MarkAmbiguousForgotten(st) == st

\* line 117: this.ambiguous = true
MarkAmbiguous(st) == [st EXCEPT !.ambiguous = TRUE]

\* lines 127-128: both arrays lose entry i
RemoveAction(st, i) ==
  [st EXCEPT !.terminals = splice(st.terminals, i),
             !.terminalPrec = splice(st.terminalPrec, i)]

\* lines 139-140
PushAction(st, value, prec) ==
  [st EXCEPT !.terminals = Append(st.terminals, value),
             !.terminalPrec = Append(st.terminalPrec, prec)]

NoPos == [rule |-> 0, pos |-> 0, ahead |-> "", prec |-> none]

NoError == [kind |-> "", pos |-> NoPos, term |-> ""]

\* lines 135-136, mutated: an unresolved conflict without a Pos is passed
\* over and the new action is added all the same
UnresolvedPushed(st, action, value, prec, pos) ==
  IF pos = NoPos
  THEN [state |-> PushAction(st, value, prec), result |-> "true", error |-> NoError]
  ELSE [state |-> st, result |-> "throw",
        error |-> [kind |-> (IF isShift(action) THEN "shift" ELSE "reduce") \o "/reduce conflict",
                   pos |-> pos, term |-> action.term]]

\* lines 135-136: return false without a Pos, throw an Error naming the
\* two kinds of action, the item and the terminal with one
Unresolved(st, action, value, prec, pos) ==
  IF pos = NoPos
  THEN [state |-> st, result |-> "false", error |-> NoError]
  ELSE [state |-> st, result |-> "throw",
        error |-> [kind |-> (IF isShift(action) THEN "shift" ELSE "reduce") \o "/reduce conflict",
                   pos |-> pos, term |-> action.term]]

\* The loop `check:` of addAction (lines 113-138) from index i on
RECURSIVE Scan(_, _, _, _, _)
Scan(st, i, value, prec, pos) ==
  IF i > Len(st.terminals)
  THEN [state |-> PushAction(st, value, prec), result |-> "true", error |-> NoError]
  ELSE LET action == st.terminals[i] IN
       IF action.term # value.term THEN Scan(st, i + 1, value, prec, pos)
       ELSE IF ActionEq(action, value)
       THEN [state |-> st, result |-> "true", error |-> NoError]
       ELSE LET marked == MarkAmbiguous(st)
                d == Decide(action, st.terminalPrec[i], prec, 1)
            IN CASE d = "skip" -> Scan(marked, i + 1, value, prec, pos)
                 [] d = "remove" -> Scan(RemoveAction(marked, i), i, value, prec, pos)
                 [] d = "keep" -> [state |-> marked, result |-> "true", error |-> NoError]
                 [] OTHER -> Unresolved(marked, action, value, prec, pos)

\* State.addAction(value, prec, pos?): the state after the call, what it
\* returned ("true", "false") or that it threw ("throw"), and the error
addAction(st, value, prec, pos) == Scan(st, 1, value, prec, pos)

(***************************************************************************)
(* grammar.ts: Term.  A term is its name; a grammar (TermSet plus rules)   *)
(* is a record [terminals, nonTerminals, rules].  TermSet's constructor    *)
(* makes the eof and the error terminal first; their names are the         *)
(* characters U+2404 and U+26A0, written "EOF" and "ERR" here.             *)
(***************************************************************************)
eof == "EOF"

error == "ERR"

\* the epsilon marker of the FIRST table (a null entry)
null == "null"

\* The names in use, in the order of JavaScript's string comparison
\* (upper case before lower case, the two special characters last)
NameOrder ==
  <<"A", "B", "E", "F", "K", "L", "P", "Q", "R", "S", "X",
    "a", "b", "c", "d", "e", "k", "n", "plus", "program", "times", "u", "x", "y",
    "EOF", "ERR">>

NameRank(name) == CHOOSE i \in 1..Len(NameOrder) : NameOrder[i] = name

\* cmpStr(a, b) of grammar.ts
cmpStr(a, b) == IF a = b THEN 0 ELSE IF NameRank(a) < NameRank(b) THEN -1 ELSE 1

\* Term.cmp: terms are compared by name
TermCmp(a, b) == cmpStr(a, b)

terminal(G, term) == includes(G.terminals, term)

\* Precedence.cmp: associativity ("" when missing), group, level
AssocRank(a) == IF a = "null" THEN 0 ELSE IF a = "left" THEN 1 ELSE 2

GroupOrder == <<"g", "h">>

GroupRank(g) == CHOOSE i \in 1..Len(GroupOrder) : GroupOrder[i] = g

PrecedenceCmp(a, b) ==
  IF a.associativity # b.associativity
  THEN Sign(AssocRank(a.associativity) - AssocRank(b.associativity))
  ELSE IF a.group # b.group THEN Sign(GroupRank(a.group) - GroupRank(b.group))
  ELSE a.precedence - b.precedence

(***************************************************************************)
(* grammar.ts: Rule, a record [name, parts, precedence]; precedence holds  *)
(* one list of Precedence per position and may be shorter than parts.      *)
(***************************************************************************)
Rule(name, parts, precedence) == [name |-> name, parts |-> parts, precedence |-> precedence]

\* parts.reduce((r, s, i) => r || s.cmp(rule.parts[i]), 0) for equal lengths
RECURSIVE PartsCmp(_, _, _)
PartsCmp(a, b, i) ==
  IF i > Len(a) THEN 0
  ELSE IF TermCmp(a[i], b[i]) # 0 THEN TermCmp(a[i], b[i])
  ELSE PartsCmp(a, b, i + 1)

RuleCmp(a, b) ==
  IF TermCmp(a.name, b.name) # 0 THEN TermCmp(a.name, b.name)
  ELSE IF Len(a.parts) # Len(b.parts) THEN Len(a.parts) - Len(b.parts)
  ELSE IF PartsCmp(a.parts, b.parts, 1) # 0 THEN PartsCmp(a.parts, b.parts, 1)
  ELSE Len(a.precedence) - Len(b.precedence)

\* Rule.precAt(pos), pos counted from 0
precAt(rule, pos) == IF pos >= Len(rule.precedence) THEN none ELSE rule.precedence[pos + 1]

\* the loop of rulePrec / advanceWithPrec: add the entries of list that no
\* entry of result equals
RECURSIVE AddPrecs(_, _, _)
AddPrecs(result, list, k) ==
  IF k > Len(list) THEN result
  ELSE AddPrecs(IF \E j \in 1..Len(result) : PrecedenceEq(result[j], list[k])
                THEN result ELSE Append(result, list[k]),
                list, k + 1)

RECURSIVE RulePrecFrom(_, _, _)
RulePrecFrom(rule, result, k) ==
  IF k > Len(rule.precedence) THEN result
  ELSE RulePrecFrom(rule, AddPrecs(result, rule.precedence[k], 1), k + 1)

\* Rule.rulePrec(): the union of the precedences of all positions
rulePrec(rule) == RulePrecFrom(rule, none, 1)

(***************************************************************************)
(* automaton.ts: Pos, a record [rule, pos, ahead, prec]; rule is the index *)
(* of the rule in G.rules (the items refer to Rule objects).               *)
(***************************************************************************)
Pos(rule, pos, ahead, prec) == [rule |-> rule, pos |-> pos, ahead |-> ahead, prec |-> prec]

\* Pos.next: null is written as the marker
PosNext(G, p) ==
  IF p.pos < Len(G.rules[p.rule].parts) THEN G.rules[p.rule].parts[p.pos + 1] ELSE null

PosAdvance(p) == Pos(p.rule, p.pos + 1, p.ahead, p.prec)

\* cmpSet(a, b, cmp); diff[i] stands for cmp(a[i], b[i]), which is asked
\* for only when the lengths are equal
cmpSet(a, b, diff) ==
  IF Len(a) # Len(b) THEN Len(a) - Len(b)
  ELSE IF \A i \in 1..Len(a) : diff[i] = 0 THEN 0
  ELSE diff[CHOOSE i \in 1..Len(a) : diff[i] # 0 /\ \A j \in 1..(i - 1) : diff[j] = 0]

cmpSimple(G, a, b) ==
  IF RuleCmp(G.rules[a.rule], G.rules[b.rule]) # 0
  THEN RuleCmp(G.rules[a.rule], G.rules[b.rule])
  ELSE a.pos - b.pos

PosCmp(G, a, b) ==
  IF cmpSimple(G, a, b) # 0 THEN cmpSimple(G, a, b)
  ELSE IF TermCmp(a.ahead, b.ahead) # 0 THEN TermCmp(a.ahead, b.ahead)
  ELSE cmpSet(a.prec, b.prec,
              [i \in 1..Len(a.prec) |->
                 IF i <= Len(b.prec) THEN PrecedenceCmp(a.prec[i], b.prec[i]) ELSE 0])

\* add(value, array)
add(value, array) == IF includes(array, value) THEN array ELSE Append(array, value)

RECURSIVE AddAll(_, _, _)
AddAll(values, array, k) ==
  IF k > Len(values) THEN array
  ELSE AddAll(values, IF values[k] = null THEN array ELSE add(values[k], array), k + 1)

\* Pos.termsAhead(first), the loop from part index `at` (0-based) on
RECURSIVE TermsAheadFrom(_, _, _, _, _)
TermsAheadFrom(G, first, p, at, found) ==
  IF at >= Len(G.rules[p.rule].parts) THEN add(p.ahead, found)
  ELSE LET next == G.rules[p.rule].parts[at + 1]
           terms == IF terminal(G, next) THEN <<next>> ELSE first[next]
           found2 == AddAll(terms, found, 1)
       IN IF includes(terms, null) THEN TermsAheadFrom(G, first, p, at + 1, found2)
          ELSE found2

\* Pos.termsAhead with the loop begun at the part after the dot itself
termsAheadFromDot(G, first, p) == TermsAheadFrom(G, first, p, p.pos, none)

termsAhead(G, first, p) == TermsAheadFrom(G, first, p, p.pos + 1, none)

\* advance(set, expr)
advance(G, set, expr) ==
  LET hits == SelectSeq(set, LAMBDA p : PosNext(G, p) = expr)
  IN [i \in 1..Len(hits) |-> PosAdvance(hits[i])]

\* advanceWithPrec(set, expr)
RECURSIVE AdvancePrecFrom(_, _, _, _, _)
AdvancePrecFrom(G, set, expr, from, prec) ==
  LET k == LeastOf({j \in from..Len(set) : PosNext(G, set[j]) = expr}, Len(set) + 1)
  IN IF k > Len(set) THEN prec
     ELSE AdvancePrecFrom(G, set, expr, k + 1,
            AddPrecs(prec, precAt(G.rules[set[k].rule], set[k].pos), 1))

advanceWithPrec(G, set, expr) ==
  [set |-> advance(G, set, expr), prec |-> AdvancePrecFrom(G, set, expr, 1, none)]

\* Array.prototype.sort((a, b) => a.cmp(b)): a stable sort
RECURSIVE InsertSorted(_, _, _, _)
InsertSorted(G, sorted, p, k) ==
  IF k = 0 \/ PosCmp(G, sorted[k], p) <= 0
  THEN SubSeq(sorted, 1, k) \o <<p>> \o SubSeq(sorted, k + 1, Len(sorted))
  ELSE InsertSorted(G, sorted, p, k - 1)

RECURSIVE SortFrom(_, _, _, _)
SortFrom(G, array, k, sorted) ==
  IF Len(sorted) >= Len(array) THEN sorted
  ELSE SortFrom(G, array, k + 1, InsertSorted(G, sorted, array[k], Len(sorted)))

sort(G, array) == SortFrom(G, array, 1, none)

(***************************************************************************)
(* automaton.ts: computeFirst.                                             *)
(***************************************************************************)
\* the loop over rule.parts from part k on: the set and the flag `found`
RECURSIVE FirstOfParts(_, _, _, _, _)
FirstOfParts(G, table, parts, k, set) ==
  IF k > Len(parts) THEN [set |-> set, found |-> FALSE]
  ELSE LET part == parts[k] IN
       IF terminal(G, part) THEN [set |-> add(part, set), found |-> TRUE]
       ELSE LET set2 == AddAll(table[part], set, 1) IN
            IF includes(table[part], null)
            THEN FirstOfParts(G, table, parts, k + 1, set2)
            ELSE [set |-> set2, found |-> TRUE]

\* lines 190, mutated: the epsilon marker is never added
FirstRuleNoEpsilon(G, table, rule) ==
  LET set == table[rule.name]
      r == IF Len(rule.parts) = 0 THEN [set |-> set, found |-> FALSE]
           ELSE FirstOfParts(G, table, rule.parts, 1, set)
  IN [table EXCEPT ![rule.name] = r.set]

\* lines 176-191: one rule's contribution to the table
FirstRule(G, table, rule) ==
  LET set == table[rule.name]
      r == IF Len(rule.parts) = 0 THEN [set |-> set, found |-> FALSE]
           ELSE FirstOfParts(G, table, rule.parts, 1, set)
  IN [table EXCEPT ![rule.name] = IF r.found THEN r.set ELSE add(null, r.set)]

\* one pass `for (let rule of rules)`
RECURSIVE FirstPass(_, _, _)
FirstPass(G, table, k) ==
  IF k > Len(G.rules) THEN table
  ELSE FirstPass(G, FirstRule(G, table, G.rules[k]), k + 1)

\* the loop `for (;;)`: passes until one changes nothing
RECURSIVE FirstFixpoint(_, _)
FirstFixpoint(G, table) ==
  LET next == FirstPass(G, table, 1)
  IN IF next = table THEN table ELSE FirstFixpoint(G, next)

computeFirst(G) == FirstFixpoint(G, [t \in Range(G.nonTerminals) |-> none])

(***************************************************************************)
(* automaton.ts: closure.                                                  *)
(***************************************************************************)
\* for (let a of ahead), for one rule
RECURSIVE ClosureAhead(_, _, _, _, _)
ClosureAhead(result, rule, ahead, nextPrec, k) ==
  IF k > Len(ahead) THEN result
  ELSE ClosureAhead(
         IF \E j \in 1..Len(result) :
              result[j].rule = rule /\ result[j].pos = 0 /\ result[j].ahead = ahead[k]
         THEN result
         ELSE Append(result, Pos(rule, 0, ahead[k], nextPrec)),
         rule, ahead, nextPrec, k + 1)

\* for (let rule of rules) if (rule.name == next)
RECURSIVE ClosureRules(_, _, _, _, _, _)
ClosureRules(G, result, next, ahead, nextPrec, r) ==
  IF r > Len(G.rules) THEN result
  ELSE ClosureRules(G,
         IF G.rules[r].name = next THEN ClosureAhead(result, r, ahead, nextPrec, 1)
         ELSE result,
         next, ahead, nextPrec, r + 1)

\* for (let pos of result), over the growing array
RECURSIVE ClosureFrom(_, _, _, _)
ClosureFrom(G, first, result, i) ==
  IF i > Len(result) THEN result
  ELSE LET p == result[i]
           next == PosNext(G, p)
       IN IF next = null \/ terminal(G, next) THEN ClosureFrom(G, first, result, i + 1)
          ELSE ClosureFrom(G, first,
                 ClosureRules(G, result, next, termsAhead(G, first, p),
                              precAt(G.rules[p.rule], p.pos), 1),
                 i + 1)

closure(G, first, set) == sort(G, ClosureFrom(G, first, set, 1))

(***************************************************************************)
(* automaton.ts: buildFullAutomaton.  The build context is the array       *)
(* `states` and the Error thrown, if any (NoError while none is); a thrown *)
(* Error ends the build.  State ids count from 0, as in the source.        *)
(***************************************************************************)
\* states.find(s => cmpSet(s.set, set, (a, b) => a.cmp(b)) == 0): its
\* 1-based index, 0 when there is none
FindState(G, states, set) ==
  LET same(k) == cmpSet(states[k].set, set,
                        [i \in 1..Len(set) |->
                           IF i <= Len(states[k].set)
                           THEN PosCmp(G, states[k].set[i], set[i]) ELSE 0]) = 0
  IN IF \E k \in 1..Len(states) : same(k)
     THEN CHOOSE k \in 1..Len(states) : same(k) /\ \A j \in 1..(k - 1) : ~same(j)
     ELSE 0

\* line 210: the Shift is added with the precedence advanceWithPrec found
ShiftPrec(prec) == prec

RECURSIVE explore(_, _, _, _)
RECURSIVE ExploreTerminals(_, _, _, _, _, _)
RECURSIVE ExploreGotos(_, _, _, _, _, _)

\* the index from `from` on of the first of `terms` that an item of `set`
\* has after its dot (null for the items with the dot at the end), past
\* the end when there is none: the loops pass over every other term, eof
\* (line 207) and the terms whose advanced set is empty (line 201)
NextExpected(G, set, terms, from) ==
  LeastOf({j \in from..Len(terms) :
             terms[j] # eof /\ \E i \in 1..Len(set) : PosNext(G, set[i]) = terms[j]},
          Len(terms) + 1)

\* lines 216-220: a Reduce for every item with the dot at the end
RECURSIVE ExploreReduces(_, _, _, _, _)
ExploreReduces(G, ctx, id, set, from) ==
  LET k == LeastOf({j \in from..Len(set) : PosNext(G, set[j]) = null}, Len(set) + 1) IN
  IF k > Len(set) \/ ctx.error # NoError THEN ctx
  ELSE LET r == addAction(ctx.states[id + 1], Reduce(set[k].ahead, set[k].rule),
                          rulePrec(G.rules[set[k].rule]), set[k])
       IN ExploreReduces(G,
            [states |-> [ctx.states EXCEPT ![id + 1] = r.state],
             error |-> IF r.result = "throw" THEN r.error ELSE NoError],
            id, set, k + 1)

\* lines 207-211: a Shift for every terminal but eof that some item expects
ExploreTerminals(G, first, ctx, id, set, from) ==
  LET k == NextExpected(G, set, G.terminals, from) IN
  IF k > Len(G.terminals) \/ ctx.error # NoError THEN ctx
  ELSE LET a == advanceWithPrec(G, set, G.terminals[k])
           e == explore(G, first, ctx, a.set)
       IN IF e.id < 0 THEN ExploreTerminals(G, first, e.ctx, id, set, k + 1)
          ELSE LET r == addAction(e.ctx.states[id + 1], Shift(G.terminals[k], e.id),
                                  ShiftPrec(a.prec), NoPos)
               IN ExploreTerminals(G, first,
                    [e.ctx EXCEPT !.states = [e.ctx.states EXCEPT ![id + 1] = r.state]],
                    id, set, k + 1)

\* lines 212-215: a goto for every non-terminal that some item expects
ExploreGotos(G, first, ctx, id, set, from) ==
  LET k == NextExpected(G, set, G.nonTerminals, from) IN
  IF k > Len(G.nonTerminals) \/ ctx.error # NoError THEN ctx
  ELSE LET e == explore(G, first, ctx, advance(G, set, G.nonTerminals[k]))
       IN IF e.id < 0 THEN ExploreGotos(G, first, e.ctx, id, set, k + 1)
          ELSE ExploreGotos(G, first,
                 [e.ctx EXCEPT !.states =
                    [e.ctx.states EXCEPT ![id + 1].goto =
                       Append(@, Shift(G.nonTerminals[k], e.id))]],
                 id, set, k + 1)

\* explore(set): the id of the state of the closed set, -1 for null
explore(G, first, ctx, set0) ==
  IF ctx.error # NoError \/ Len(set0) = 0 THEN [ctx |-> ctx, id |-> -1]
  ELSE LET set == closure(G, first, set0)
           found == FindState(G, ctx.states, set)
       IN IF found # 0 THEN [ctx |-> ctx, id |-> found - 1]
          ELSE LET id == Len(ctx.states)
                   c1 == [ctx EXCEPT !.states = Append(@, NewState(id, set))]
                   c2 == ExploreTerminals(G, first, c1, id, set, 1)
               IN IF c2.error # NoError THEN [ctx |-> c2, id |-> id]
                  ELSE LET c3 == ExploreGotos(G, first, c2, id, set, 1)
                       IN IF c3.error # NoError THEN [ctx |-> c3, id |-> id]
                          ELSE [ctx |-> ExploreReduces(G, c3, id, set, 1), id |-> id]

\* the start kernel: every rule named "program" at dot 0 with lookahead eof
StartSet(G) ==
  LET idx == SelectSeq([i \in 1..Len(G.rules) |-> i], LAMBDA i : G.rules[i].name = "program")
  IN [k \in 1..Len(idx) |-> Pos(idx[k], 0, eof, none)]

\* buildFullAutomaton(rules, terms): [states, error]
buildFullAutomaton(G) ==
  explore(G, computeFirst(G), [states |-> none, error |-> NoError], StartSet(G)).ctx

(***************************************************************************)
(* automaton.ts: collapseAutomaton.                                        *)
(***************************************************************************)
\* Shift.map / Reduce.map: a Shift is retargeted to the new state of its
\* target, a Reduce is kept
ActionMap(action, mapping) ==
  IF isShift(action) THEN Shift(action.term, mapping[action.target + 1]) ELSE action

\* lines 233-236, the loop over state.goto from k on
RECURSIVE MergeGotos(_, _, _, _)
MergeGotos(mapping, gotos, target, k) ==
  IF k > Len(gotos) THEN target
  ELSE MergeGotos(mapping, gotos,
         IF \E j \in 1..Len(target.goto) : target.goto[j].term = gotos[k].term
         THEN target
         ELSE [target EXCEPT !.goto = Append(@, ActionMap(gotos[k], mapping))],
         k + 1)

\* mergeState(mapping, newStates, state, target): the target after the call
\* and what the call returned
RECURSIVE MergeTerminals(_, _, _, _)
MergeTerminals(mapping, st, target, j) ==
  IF j > Len(st.terminals)
  THEN [target |-> MergeGotos(mapping, st.goto, target, 1), ok |-> TRUE]
  ELSE LET r == addAction(target, ActionMap(st.terminals[j], mapping),
                          st.terminalPrec[j], NoPos)
       IN IF r.result # "true" THEN [target |-> r.state, ok |-> FALSE]
          ELSE MergeTerminals(mapping, st, r.state, j + 1)

mergeState(mapping, st, target) == MergeTerminals(mapping, st, target, 1)

\* markConflicts: the inner loop over j for one i
RECURSIVE MarkConflictsJ(_, _, _, _, _, _)
MarkConflictsJ(mapping, newID, oldStates, conflicts, i, from) ==
  LET j == LeastOf({x \in from..Len(mapping) : x # i /\ mapping[x] = newID},
                   Len(mapping) + 1)
  IN IF j > Len(mapping) THEN conflicts
     ELSE MarkConflictsJ(mapping, newID, oldStates,
            IF ~mergeState(mapping, oldStates[j],
                           mergeState(mapping, oldStates[i], NewState(0, none)).target).ok
            THEN conflicts \o <<i - 1, j - 1>>
            ELSE conflicts,
            i, j + 1)

\* the outer loop, from one old state mapped to newID to the next
RECURSIVE MarkConflictsI(_, _, _, _, _)
MarkConflictsI(mapping, newID, oldStates, conflicts, from) ==
  LET i == LeastOf({x \in from..Len(mapping) : mapping[x] = newID}, Len(mapping) + 1)
  IN IF i > Len(mapping) THEN conflicts
     ELSE MarkConflictsI(mapping, newID, oldStates,
            MarkConflictsJ(mapping, newID, oldStates, conflicts, i, 1), i + 1)

\* markConflicts recording nothing
markConflictsNone(mapping, newID, oldStates, conflicts) == conflicts

\* markConflicts(mapping, newID, oldStates, newStates, conflicts): the
\* conflicts array after the call (pairs of old state ids, flat)
markConflicts(mapping, newID, oldStates, conflicts) ==
  MarkConflictsI(mapping, newID, oldStates, conflicts, 1)

\* hasConflict finding nothing
hasConflictNever(id, newID, mapping, conflicts) == FALSE

\* hasConflict(id, newID, mapping, conflicts); mapping holds the states
\* mapped so far
hasConflict(id, newID, mapping, conflicts) ==
  \E i \in 1..Len(conflicts) :
    /\ conflicts[i] = id
    /\ LET other == conflicts[IF i % 2 = 0 THEN i - 1 ELSE i + 1]
       IN other + 1 <= Len(mapping) /\ mapping[other + 1] = newID

\* line 267 with no item pushed
CoreFromNothing(G, items, k, set) == set

\* line 267: the items of a state, one per (rule, dot)
RECURSIVE CoreFrom(_, _, _, _)
CoreFrom(G, items, k, set) ==
  IF k > Len(items) THEN set
  ELSE CoreFrom(G, items, k + 1,
         IF \E j \in 1..Len(set) : cmpSimple(G, set[j], items[k]) = 0
         THEN set ELSE Append(set, items[k]))

\* lines 265-277: the new state of every old state
RECURSIVE MapStates(_, _, _, _, _, _)
MapStates(G, states, conflicts, i, newStates, mapping) ==
  IF Len(mapping) >= Len(states) THEN [newStates |-> newStates, mapping |-> mapping]
  ELSE LET set == CoreFrom(G, states[i].set, 1, none)
           fits(k) == /\ cmpSet(newStates[k].set, set,
                                [j \in 1..Len(set) |->
                                   IF j <= Len(newStates[k].set)
                                   THEN cmpSimple(G, newStates[k].set[j], set[j])
                                   ELSE 0]) = 0
                      /\ ~hasConflict(i - 1, k - 1, mapping, conflicts)
           newID == IF \E k \in 1..Len(newStates) : fits(k)
                    THEN (CHOOSE k \in 1..Len(newStates) :
                            fits(k) /\ \A j \in 1..(k - 1) : ~fits(j)) - 1
                    ELSE Len(newStates)
       IN MapStates(G, states, conflicts, i + 1,
            IF newID = Len(newStates) THEN Append(newStates, NewState(newID, set))
            ELSE newStates,
            Append(mapping, newID))

\* lines 278-286: merge every old state into its new state
RECURSIVE MergeAll(_, _, _, _, _, _)
MergeAll(states, mapping, i, newStates, conflicting, conflicts) ==
  IF i > Len(states)
  THEN [newStates |-> newStates, mapping |-> mapping,
        conflicting |-> conflicting, conflicts |-> conflicts]
  ELSE LET newID == mapping[i] IN
       IF includes(conflicting, newID)
       THEN MergeAll(states, mapping, i + 1, newStates, conflicting, conflicts)
       ELSE LET m == mergeState(mapping, states[i], newStates[newID + 1])
                merged == [newStates EXCEPT ![newID + 1] = m.target]
            IN IF m.ok
               THEN MergeAll(states, mapping, i + 1, merged, conflicting, conflicts)
               ELSE MergeAll(states, mapping, i + 1, merged, Append(conflicting, newID),
                             markConflicts(mapping, newID, states, conflicts))

\* one turn of the loop `for (;;)` of collapseAutomaton
collapsePass(G, states, conflicts) ==
  LET m == MapStates(G, states, conflicts, 1, none, none)
  IN MergeAll(states, m.mapping, 1, m.newStates, none, conflicts)

(***************************************************************************)
(* The grammars the automaton builder is run on.                           *)
(***************************************************************************)
Grammar(terminals, nonTerminals, rules) ==
  [terminals |-> <<eof, error>> \o terminals, nonTerminals |-> nonTerminals, rules |-> rules]

\* one precedence marker at one position of a rule: the list `precedence`
\* of a rule with the marker at position pos (0-based)
PrecAtPos(pos, p) == [i \in 1..(pos + 1) |-> IF i = pos + 1 THEN <<p>> ELSE none]

\* expressions with binary operators; in this automaton the lower level
\* wins, so "times" (level 1) binds tighter than "plus" (level 2)
ArithGrammar ==
  Grammar(<<"n", "plus", "times">>, <<"program", "E">>,
    <<Rule("program", <<"E">>, none),
      Rule("E", <<"E", "plus", "E">>, PrecAtPos(1, Precedence("left", "g", 2))),
      Rule("E", <<"E", "times", "E">>, PrecAtPos(1, Precedence("left", "g", 1))),
      Rule("E", <<"n">>, none)>>)

\* an ambiguity marked as intended (level < 0)
AmbigGrammar ==
  Grammar(<<"n", "plus">>, <<"program", "E">>,
    <<Rule("program", <<"E">>, none),
      Rule("E", <<"E", "plus", "E">>, PrecAtPos(1, Precedence("null", "g", -1))),
      Rule("E", <<"n">>, none)>>)

\* an empty production
EpsilonGrammar ==
  Grammar(<<"a", "b">>, <<"program", "A">>,
    <<Rule("program", <<"A", "b">>, none),
      Rule("A", none, none),
      Rule("A", <<"a", "A">>, none)>>)

\* a reduce/reduce conflict that no precedence relates
ConflictGrammar ==
  Grammar(<<"a">>, <<"program", "A", "B">>,
    <<Rule("program", <<"A">>, none),
      Rule("program", <<"B">>, none),
      Rule("A", <<"a">>, none),
      Rule("B", <<"a">>, none)>>)

\* a shift/reduce conflict that no precedence relates
DanglingGrammar ==
  Grammar(<<"n", "plus">>, <<"program", "E">>,
    <<Rule("program", <<"E">>, none),
      Rule("E", <<"E", "plus", "E">>, none),
      Rule("E", <<"n">>, none)>>)

\* LR(1) but not LALR(1): the states after "a e" and "b e" must stay apart
SplitGrammar ==
  Grammar(<<"a", "b", "c", "d", "e">>, <<"program", "E", "F">>,
    <<Rule("program", <<"a", "E", "c">>, none),
      Rule("program", <<"a", "F", "d">>, none),
      Rule("program", <<"b", "F", "c">>, none),
      Rule("program", <<"b", "E", "d">>, none),
      Rule("E", <<"e">>, none),
      Rule("F", <<"e">>, none)>>)

\* as SplitGrammar, with the two states that must stay apart reached by a
\* goto from two states of one core
GotoGrammar ==
  Grammar(<<"a", "b", "c", "d", "k", "x">>, <<"program", "K", "L", "P", "Q", "X">>,
    <<Rule("program", <<"a", "K", "c">>, none),
      Rule("program", <<"a", "L", "d">>, none),
      Rule("program", <<"b", "K", "d">>, none),
      Rule("program", <<"b", "L", "c">>, none),
      Rule("K", <<"k", "P">>, none),
      Rule("L", <<"k", "Q">>, none),
      Rule("P", <<"X">>, none),
      Rule("Q", <<"X">>, none),
      Rule("X", <<"x">>, none)>>)

\* a conflict that precedence resolves in one state of a core (after "y c")
\* and that does not arise in the other (after "x c")
PrecGrammar ==
  Grammar(<<"c", "u", "x", "y">>, <<"program", "R", "S">>,
    <<Rule("program", <<"x", "R", "u">>, none),
      Rule("program", <<"x", "S">>, none),
      Rule("program", <<"y", "R", "c">>, none),
      Rule("program", <<"y", "S">>, none),
      Rule("R", <<"c">>, PrecAtPos(0, Precedence("null", "g", 1))),
      Rule("S", <<"c", "c">>, PrecAtPos(1, Precedence("null", "g", 2)))>>)

\* three states of one core, after "a e", "b e" and "n e": the first two
\* must stay apart for their reductions, the first and the third for the
\* states their shift of k leads to, which must stay apart themselves
RegroupGrammar ==
  Grammar(<<"a", "b", "c", "d", "e", "k", "n", "u", "y">>, <<"program", "E", "F", "K", "L">>,
    <<Rule("program", <<"a", "E", "c">>, none),
      Rule("program", <<"a", "F", "d">>, none),
      Rule("program", <<"a", "K", "c">>, none),
      Rule("program", <<"a", "L", "d">>, none),
      Rule("program", <<"b", "E", "d">>, none),
      Rule("program", <<"b", "F", "c">>, none),
      Rule("program", <<"b", "K", "d">>, none),
      Rule("program", <<"b", "L", "c">>, none),
      Rule("program", <<"n", "E", "u">>, none),
      Rule("program", <<"n", "F", "y">>, none),
      Rule("program", <<"n", "K", "d">>, none),
      Rule("program", <<"n", "L", "c">>, none),
      Rule("E", <<"e">>, none),
      Rule("F", <<"e">>, none),
      Rule("K", <<"e", "k">>, none),
      Rule("L", <<"e", "k">>, none)>>)

\* one rule reached in a closure from two items whose positions carry
\* different precedences, with "a" ahead in both; A derives the empty string
StackGrammar ==
  Grammar(<<"a", "b", "y">>, <<"program", "A", "B">>,
    <<Rule("program", <<"B", "A">>, PrecAtPos(0, Precedence("left", "g", 1))),
      Rule("program", <<"B", "A", "y">>, PrecAtPos(0, Precedence("left", "g", 2))),
      Rule("A", none, none),
      Rule("A", <<"a">>, none),
      Rule("B", <<"b">>, none)>>)

Grammars ==
  <<ArithGrammar, AmbigGrammar, EpsilonGrammar, ConflictGrammar, DanglingGrammar,
    SplitGrammar, GotoGrammar, PrecGrammar, RegroupGrammar, StackGrammar>>

(***************************************************************************)
(* An automaton run as a table-driven LR parser: a stack of state ids from *)
(* state 0; a Reduce pops one state per part of its rule and follows the   *)
(* goto of the state then on top; the input is accepted when, with eof     *)
(* ahead, a rule of "program" is reduced and only state 0 is left.         *)
(***************************************************************************)
Top(stack) == stack[Len(stack)]

ReducesOn(G, aut, stack, term) ==
  {a \in Range(aut[Top(stack) + 1].terminals) :
     a.term = term /\ ~isShift(a) /\ Len(G.rules[a.rule].parts) < Len(stack)}

\* the stack after Reduce a, none when the exposed state has no goto
Reduced(G, aut, stack, a) ==
  LET rest == SubSeq(stack, 1, Len(stack) - Len(G.rules[a.rule].parts))
      gotos == {x \in Range(aut[Top(rest) + 1].goto) : x.term = G.rules[a.rule].name}
  IN {Append(rest, x.target) : x \in gotos}

RECURSIVE ReduceClosure(_, _, _, _)
ReduceClosure(G, aut, stacks, term) ==
  LET more == stacks \cup UNION {Reduced(G, aut, s, a) : <<s, a>> \in
                 {<<s, a>> \in stacks \X UNION {Range(aut[q].terminals) : q \in 1..Len(aut)} :
                    a \in ReducesOn(G, aut, s, term)}}
  IN IF more = stacks THEN stacks ELSE ReduceClosure(G, aut, more, term)

\* the stacks after reading one more terminal
Read(G, aut, stacks, term) ==
  {Append(s, a.target) : <<s, a>> \in
     {<<s, a>> \in ReduceClosure(G, aut, stacks, term)
                     \X UNION {Range(aut[q].terminals) : q \in 1..Len(aut)} :
        a \in Range(aut[Top(s) + 1].terminals) /\ a.term = term /\ isShift(a)}}

\* whether the input read so far is a sentence
Accepts(G, aut, stacks) ==
  \E s \in ReduceClosure(G, aut, stacks, eof) :
    \E a \in ReducesOn(G, aut, s, eof) :
      G.rules[a.rule].name = "program" /\ Len(s) - Len(G.rules[a.rule].parts) = 1

(***************************************************************************)
(* A run either drives State.addAction directly, with any sequence of      *)
(* calls on one State, or builds the automaton of one of the grammars,     *)
(* collapses it and runs both automata on an input.                        *)
(***************************************************************************)
MaxCalls == 3

MaxPasses == 4

MaxWord == 4

Assoc == {"left", "right", "null"}

Groups == {"g", "h"}

Levels == {-1, 1, 2}

\* the precedences the calls draw from: every one of group g, one of group h
Precedences ==
  {p \in [associativity : Assoc, group : Groups, precedence : Levels] :
     p.group = "h" => (p.associativity = "null" /\ p.precedence = 1)}

\* precedence lists: none, one entry, or an h entry followed by a g entry
PrecLists ==
  {none} \cup {<<p>> : p \in Precedences}
         \cup {<<p, q>> : p \in {x \in Precedences : x.group = "h"},
                          q \in {x \in Precedences : x.group = "g" /\ x.associativity = "null"}}

\* the actions the calls draw from
ActionValues == {Shift("t", 1), Reduce("t", 1), Reduce("t", 2), Shift("u", 1)}

\* the Pos passed as the reporting context
SomePos == Pos(1, 1, "t", none)

\* explore passes a Pos with a Reduce and none with a Shift; mergeState
\* passes none with either
PosChoices(value) == IF isShift(value) THEN {NoPos} ELSE {NoPos, SomePos}

NoCall == [value |-> Shift("", 0), prec |-> none, pos |-> NoPos,
           result |-> "", error |-> NoError, before |-> NewState(0, none)]

IdleAdd == state = NewState(0, none) /\ calls = 0 /\ last = NoCall

IdleLR ==
  /\ phase = "start" /\ full = none /\ raised = NoError /\ passes = 0
  /\ curConflicts = none /\ curMapping = none /\ curConflicting = none /\ collapsed = none

IdleParse == word = none /\ liveFull = {} /\ liveCollapsed = {}

IdleFirst ==
  /\ firstInput = Grammar(none, none, none) /\ firstTable = none
  /\ firstPhase = "" /\ origin = "" /\ form = none

IdleSimplify ==
  /\ astRules = none /\ topExpr = none /\ mainSkip = none /\ builtRules = none
  /\ simplified = none /\ simplifyPhase = ""

IdleTokens ==
  /\ tokInput = none /\ tokConflicts = none /\ tokUsedPrec = none /\ tokGroups = none
  /\ tokAssigned = none /\ tokPhase = "" /\ tokRaised = ""

IdlePrec ==
  /\ precAst = none /\ precedenceRelations = none /\ precRel = none
  /\ precOrdered = none /\ precPhase = ""

IdleSpecialize ==
  /\ specialized = none /\ tokenOrigins = {} /\ madeTerminals = {}
  /\ specCalls = 0 /\ specLast = none

IdleCharSet ==
  /\ charSet = none /\ pendingRanges = none /\ edges = {} /\ hops = 0 /\ setPhase = ""

IdleData == dbData = none /\ dbStored = none

IdleGoto == gotoStates = none /\ gotoTable = none

IdleTokenSet == tokenRules = none /\ tokenSet = none

IdleTable == IdleData /\ IdleGoto /\ IdleTokenSet

IdleBuilder == IdlePrec /\ IdleSpecialize /\ IdleCharSet /\ IdleTable

Init ==
  /\ run \in {"addAction", "automaton"}
  /\ grammar \in 1..Len(Grammars)
  /\ run = "addAction" => grammar = 1
  /\ IdleAdd /\ IdleLR /\ IdleParse /\ IdleFirst /\ IdleSimplify /\ IdleTokens
  /\ IdleBuilder

\* one call of state.addAction(value, prec, pos); a call that returned false
\* or threw ends the use of the state (the merge or the build is given up)
AddAction ==
  /\ run = "addAction"
  /\ calls < MaxCalls
  /\ last.result \in {"", "true"}
  /\ \E value \in ActionValues, prec \in PrecLists :
       \E pos \in PosChoices(value) :
         LET r == addAction(state, value, prec, pos)
         IN /\ state' = r.state
            /\ last' = [value |-> value, prec |-> prec, pos |-> pos,
                        result |-> r.result, error |-> r.error, before |-> state]
  /\ calls' = calls + 1
  /\ UNCHANGED <<run, lrVars, parseVars, firstVars, simplifyVars, tokenVars, builderVars>>

\* buildFullAutomaton(rules, terms)
Build ==
  /\ run = "automaton" /\ phase = "start"
  /\ LET b == buildFullAutomaton(Grammars[grammar])
     IN /\ full' = b.states
        /\ raised' = b.error
        /\ phase' = IF b.error = NoError THEN "built" ELSE "raised"
  /\ UNCHANGED <<run, addVars, parseVars, firstVars, simplifyVars, tokenVars, builderVars,
                 grammar, passes, curConflicts, curMapping, curConflicting, collapsed>>

\* one turn of the loop of collapseAutomaton; the turn that finds nothing
\* conflicting returns newStates
CollapsePass ==
  /\ run = "automaton" /\ phase \in {"built", "collapsing"}
  /\ passes < MaxPasses
  /\ LET p == collapsePass(Grammars[grammar], full, curConflicts)
     IN /\ curMapping' = p.mapping
        /\ curConflicting' = p.conflicting
        /\ curConflicts' = p.conflicts
        /\ collapsed' = p.newStates
        /\ phase' = IF p.conflicting = none THEN "collapsed" ELSE "collapsing"
        /\ liveFull' = IF p.conflicting = none THEN {<<0>>} ELSE liveFull
        /\ liveCollapsed' = IF p.conflicting = none THEN {<<0>>} ELSE liveCollapsed
  /\ passes' = passes + 1
  /\ UNCHANGED <<run, addVars, firstVars, simplifyVars, tokenVars, builderVars, grammar, full, raised, word>>

\* both parsers read one more terminal
Feed ==
  /\ run = "automaton" /\ phase = "collapsed"
  /\ Len(word) < MaxWord
  /\ liveFull # {} \/ liveCollapsed # {}
  /\ \E term \in Range(Grammars[grammar].terminals) \ {eof, error} :
       /\ word' = Append(word, term)
       /\ liveFull' = Read(Grammars[grammar], full, liveFull, term)
       /\ liveCollapsed' = Read(Grammars[grammar], collapsed, liveCollapsed, term)
  /\ UNCHANGED <<run, addVars, lrVars, firstVars, simplifyVars, tokenVars, builderVars>>

Next == AddAction \/ Build \/ CollapsePass \/ Feed

vars == <<run, addVars, lrVars, parseVars, firstVars, simplifyVars, tokenVars, builderVars>>

Spec == Init /\ [][Next]_vars

(***************************************************************************)
(* computeFirst driven on every rule list of up to MaxRules rules over two *)
(* non-terminals and two terminals, one turn of its loop at a time; after  *)
(* it has returned, leftmost derivations from a non-terminal are followed  *)
(* as long as the sentential form starts with a non-terminal.              *)
(***************************************************************************)
MaxRules == 3

MaxForm == 3

FirstParts ==
  {none, <<"a">>, <<"B">>, <<"A", "b">>, <<"B", "a">>, <<"B", "A">>, <<"A", "B">>}

FirstRules == {Rule(name, parts, none) : name \in {"A", "B"}, parts \in FirstParts}

InitFirst ==
  /\ run = "first"
  /\ \E rules \in [1..MaxRules -> FirstRules] :
       firstInput = Grammar(<<"a", "b">>, <<"A", "B">>, rules)
  /\ firstTable = [t \in {"A", "B"} |-> none]
  /\ firstPhase = "loop" /\ origin = "" /\ form = none
  /\ grammar = 1 /\ IdleAdd /\ IdleLR /\ IdleParse /\ IdleSimplify /\ IdleTokens
  /\ IdleBuilder

\* one turn of the loop `for (;;)` of computeFirst
FirstTurn ==
  /\ run = "first" /\ firstPhase = "loop"
  /\ firstTable' = FirstPass(firstInput, firstTable, 1)
  /\ firstPhase' = IF firstTable' = firstTable THEN "returned" ELSE "loop"
  /\ UNCHANGED <<run, addVars, lrVars, parseVars, simplifyVars, tokenVars, builderVars,
                 firstInput, origin, form>>

\* a derivation starts from a non-terminal
DeriveFrom ==
  /\ run = "first" /\ firstPhase = "returned" /\ origin = ""
  /\ \E name \in Range(firstInput.nonTerminals) : origin' = name /\ form' = <<name>>
  /\ UNCHANGED <<run, addVars, lrVars, parseVars, simplifyVars, tokenVars, builderVars,
                 firstInput, firstTable, firstPhase>>

\* the leftmost symbol of the form, a non-terminal, is replaced by the
\* parts of one of its rules
DeriveStep ==
  /\ run = "first" /\ origin # "" /\ form # none
  /\ ~terminal(firstInput, form[1])
  /\ \E i \in 1..Len(firstInput.rules) :
       /\ firstInput.rules[i].name = form[1]
       /\ Len(firstInput.rules[i].parts) + Len(form) - 1 <= MaxForm
       /\ form' = firstInput.rules[i].parts \o Tail(form)
  /\ UNCHANGED <<run, addVars, lrVars, parseVars, simplifyVars, tokenVars, builderVars,
                 firstInput, firstTable, firstPhase, origin>>

NextFirst == FirstTurn \/ DeriveFrom \/ DeriveStep

SpecFirst == InitFirst /\ [][NextFirst]_vars

(***************************************************************************)
(* build.ts: the rule list of the Builder.  A rule is a record             *)
(* [name, parts, conflicts, skip] with one conflict record for each        *)
(* position between the parts, both ends included.  Rule, Conflicts and    *)
(* Term live in a module of their own; what is used of them here follows   *)
(* their description: a conflict record is the set of its markers and      *)
(* joining two records unites them, a term is interesting when it is       *)
(* tagged, and cmpNoName compares everything but the name.                 *)
(***************************************************************************)
noSkip == "noSkip"

ConflictsNone == {}

join(a, b) == a \cup b

RuleOf(name, parts, conflicts, skip) ==
  [name |-> name, parts |-> parts, conflicts |-> conflicts, skip |-> skip]

\* line 169: the top term is tagged ("document" when no tag is given);
\* buildRule gives a rule declared without a tag none
Tagged == {"program"}

interesting(name) == name \in Tagged

cmpNoName(a, b) ==
  IF a.parts = b.parts /\ a.conflicts = b.conflicts /\ a.skip = b.skip THEN 0 ELSE 1

\* Parts.ensureConflicts for a choice without markers
ensureConflicts(choice) == [i \in 1..(Len(choice) + 1) |-> ConflictsNone]

\* Builder.defineRule(name, choices): one rule for each choice
defineRule(rules, name, choices, skip) ==
  rules \o [i \in 1..Len(choices) |->
              RuleOf(name, choices[i], ensureConflicts(choices[i]), skip)]

\* Builder.buildRule / Builder.resolve / normalizeExpr for expressions that
\* are choices of sequences of names: a rule is built when first referred
\* to, `built` gets its name before its expression is normalized, and its
\* rules are defined after those of the rules it made to be built.
\* ctx is [built, rules].
RECURSIVE buildRule(_, _, _)
RECURSIVE NormalizeFrom(_, _, _, _, _)
NormalizeFrom(ast, ctx, choices, c, k) ==
  IF c > Len(choices) THEN ctx
  ELSE IF k > Len(choices[c]) THEN NormalizeFrom(ast, ctx, choices, c + 1, 1)
  ELSE NormalizeFrom(ast,
         IF choices[c][k] \in DOMAIN ast THEN buildRule(ast, ctx, choices[c][k]) ELSE ctx,
         choices, c, k + 1)

buildRule(ast, ctx, name) ==
  IF name \in ctx.built THEN ctx
  ELSE LET inner == NormalizeFrom(ast, [ctx EXCEPT !.built = @ \cup {name}], ast[name], 1, 1)
       IN [inner EXCEPT !.rules = defineRule(@, name, ast[name], noSkip)]

\* line 133: the term of the main skip rule
mainSkipName == "%mainskip"

\* line 205: the skip rules and the top term (no nested grammars)
preserved(skip) == (IF skip = none THEN none ELSE <<mainSkipName>>) \o <<"program">>

\* the Builder's constructor.  Lines 153-157: with a @skip expression the
\* skip rule is defined first, under noSkip; the rule declarations then
\* stand in a block `@skip {} { }`, which gives them noSkip (line 138).
\* Lines 168-171: the top expression is normalized and the top rule defined
\* last, under the main skip.
builderRules(ast, top, skip) ==
  LET fresh == [built |-> {}, rules |-> none]
      skipped == IF skip = none THEN fresh
                 ELSE [NormalizeFrom(ast, fresh, skip, 1, 1)
                         EXCEPT !.rules = defineRule(@, mainSkipName, skip, noSkip)]
  IN defineRule(NormalizeFrom(ast, skipped, top, 1, 1).rules,
                "program", top, IF skip = none THEN noSkip ELSE mainSkipName)

(***************************************************************************)
(* build.ts: inlineRules.                                                  *)
(***************************************************************************)
\* lines 1331-1335: rule i is marked inlinable, `marked` being the names
\* marked before it in this pass
CanInline(rules, preserve, i, marked) ==
  LET rule == rules[i] IN
  /\ ~interesting(rule.name)
  /\ ~includes(rule.parts, rule.name)
  /\ Len(rule.parts) < 3
  /\ ~includes(preserve, rule.name)
  /\ \/ Len(rule.parts) = 1
     \/ \A k \in 1..Len(rules) :
          rules[k].skip = rule.skip \/ ~includes(rules[k].parts, rule.name)
  /\ ~\E k \in 1..Len(rule.parts) : rule.parts[k] \in marked
  /\ ~\E j \in 1..Len(rules) : j # i /\ rules[j].name = rule.name

\* lines 1329-1337: the names in `inlinable` after the loop
RECURSIVE MarkInlinable(_, _, _, _)
MarkInlinable(rules, preserve, i, marked) ==
  IF i > Len(rules) THEN marked
  ELSE MarkInlinable(rules, preserve, i + 1,
         IF CanInline(rules, preserve, i, marked) THEN marked \cup {rules[i].name}
         ELSE marked)

\* inlinable[name]: a marked name has one rule
RuleNamed(rules, name) == rules[CHOOSE i \in 1..Len(rules) : rules[i].name = name]

\* lines 1346-1360: the rule with the marked parts replaced
RECURSIVE InlineParts(_, _, _, _, _, _)
InlineParts(rules, marked, rule, i, parts, conflicts) ==
  IF i > Len(rule.parts) THEN RuleOf(rule.name, parts, conflicts, rule.skip)
  ELSE IF rule.parts[i] \in marked
  THEN LET replace == RuleNamed(rules, rule.parts[i])
           joined == [conflicts EXCEPT ![Len(conflicts)] = join(@, replace.conflicts[1])]
           pushed == joined \o SubSeq(replace.conflicts, 2, Len(replace.parts) + 1)
           closed == [pushed EXCEPT ![Len(pushed)] = join(@, rule.conflicts[i + 1])]
       IN InlineParts(rules, marked, rule, i + 1, parts \o replace.parts, closed)
  ELSE InlineParts(rules, marked, rule, i + 1,
                   Append(parts, rule.parts[i]), Append(conflicts, rule.conflicts[i + 1]))

\* lines 1339-1361: newRules
RECURSIVE InlineRewrite(_, _, _, _)
InlineRewrite(rules, marked, k, newRules) ==
  IF k > Len(rules) THEN newRules
  ELSE LET rule == rules[k] IN
       IF rule.name \in marked THEN InlineRewrite(rules, marked, k + 1, newRules)
       ELSE IF ~\E j \in 1..Len(rule.parts) : rule.parts[j] \in marked
       THEN InlineRewrite(rules, marked, k + 1, Append(newRules, rule))
       ELSE InlineRewrite(rules, marked, k + 1,
              Append(newRules, InlineParts(rules, marked, rule, 1, none, <<rule.conflicts[1]>>)))

RECURSIVE inlineRules(_, _)
inlineRules(rules, preserve) ==
  LET marked == MarkInlinable(rules, preserve, 1, {})
  IN IF marked = {} THEN rules
     ELSE inlineRules(InlineRewrite(rules, marked, 1, none), preserve)

(***************************************************************************)
(* build.ts: mergeRules.  `merged` maps a name to the name it is replaced  *)
(* by, "" standing for no entry.                                           *)
(***************************************************************************)
\* the index after the run of rules that starts at i and has one name
RECURSIVE GroupEnd(_, _)
GroupEnd(rules, i) ==
  IF i < Len(rules) /\ rules[i + 1].name = rules[i].name THEN GroupEnd(rules, i + 1)
  ELSE i + 1

MergedTo(merged, name) == IF name \in DOMAIN merged THEN merged[name] ELSE ""

\* lines 1375-1385: the groups after the group at groupStart
RECURSIVE MergeInner(_, _, _, _, _)
MergeInner(rules, groupStart, size, j, merged) ==
  IF j > Len(rules) THEN merged
  ELSE LET otherName == rules[j].name
           after == GroupEnd(rules, j)
       IN IF after - j # size \/ interesting(otherName)
          THEN MergeInner(rules, groupStart, size, after, merged)
          ELSE IF \A k \in 0..(size - 1) : cmpNoName(rules[groupStart + k], rules[j + k]) = 0
          THEN MergeInner(rules, groupStart, size, after,
                          [merged EXCEPT ![rules[groupStart].name] = otherName])
          ELSE MergeInner(rules, groupStart, size, after, merged)

\* lines 1369-1386
RECURSIVE MergeScan(_, _, _)
MergeScan(rules, i, merged) ==
  IF i > Len(rules) THEN merged
  ELSE LET after == GroupEnd(rules, i)
       IN IF interesting(rules[i].name) THEN MergeScan(rules, after, merged)
          ELSE MergeScan(rules, after, MergeInner(rules, i, after - i, after, merged))

mergeRules(rules) ==
  LET merged == MergeScan(rules, 1, [n \in {rules[i].name : i \in 1..Len(rules)} |-> ""])
      kept == SelectSeq(rules, LAMBDA rule : MergedTo(merged, rule.name) = "")
  IN IF \A n \in DOMAIN merged : merged[n] = "" THEN rules
     ELSE [i \in 1..Len(kept) |->
             RuleOf(kept[i].name,
                    [k \in 1..Len(kept[i].parts) |->
                       IF MergedTo(merged, kept[i].parts[k]) # ""
                       THEN MergedTo(merged, kept[i].parts[k]) ELSE kept[i].parts[k]],
                    kept[i].conflicts, kept[i].skip)]

simplifyRules(rules, preserve) == mergeRules(inlineRules(rules, preserve))

(***************************************************************************)
(* The Builder driven on every grammar file of three rule declarations     *)
(* A, B, C and a top expression, each a choice list drawn from Choices:    *)
(* the constructor builds the rule list, getParser simplifies it.          *)
(***************************************************************************)
MaxSentence == 3

SimplifyTerminals == {"x", "y"}

Choices ==
  {<<parts>> : parts \in {<<"y">>, <<"A">>, <<"B">>, <<"C">>, <<"x", "A">>}}
    \cup {<<<<"x", "A">>, <<"y">>>>, <<<<"x", "B">>, <<"y">>>>}

InitSimplify ==
  /\ run = "simplify"
  /\ astRules \in [{"A", "B", "C"} -> Choices]
  /\ topExpr \in Choices
  /\ mainSkip \in {none, <<<<"x", "A">>, <<"y">>>>}
  /\ builtRules = none /\ simplified = none /\ simplifyPhase = "ast"
  /\ grammar = 1 /\ IdleAdd /\ IdleLR /\ IdleParse /\ IdleFirst /\ IdleTokens
  /\ IdleBuilder

\* new Builder(text): the rules the declarations in use expand to
DefineRules ==
  /\ run = "simplify" /\ simplifyPhase = "ast"
  /\ builtRules' = builderRules(astRules, topExpr, mainSkip)
  /\ simplifyPhase' = "defined"
  /\ UNCHANGED <<run, addVars, lrVars, parseVars, firstVars, tokenVars, builderVars,
                 astRules, topExpr, mainSkip, simplified>>

\* Builder.getParser, line 205
GetParser ==
  /\ run = "simplify" /\ simplifyPhase = "defined"
  /\ simplified' = simplifyRules(builtRules, preserved(mainSkip))
  /\ simplifyPhase' = "simplified"
  /\ UNCHANGED <<run, addVars, lrVars, parseVars, firstVars, tokenVars, builderVars,
                 astRules, topExpr, mainSkip, builtRules>>

NextSimplify == DefineRules \/ GetParser

SpecSimplify == InitSimplify /\ [][NextSimplify]_vars

(***************************************************************************)
(* build.ts: Parts and the normalizer of expressions.  A Parts value is a  *)
(* record [terms, conflicts], conflicts the empty list when the field is   *)
(* null (an array of conflicts has an entry at least).  An expression is a *)
(* record [kind, name, exprs, markers]: kind "name" (a reference), "seq",  *)
(* "choice", or "*", "+", "?" for a repeat of exprs[1]; the markers of a   *)
(* sequence are one list of [type, name] for each position between its    *)
(* elements, both ends included.  A conflict record is the set of what its *)
(* markers stand for.  ctx is [rules, built, nonTerminals]: Builder.rules, *)
(* the [id, args, term] of Builder.built, and the non-terminal names.      *)
(***************************************************************************)
\* the concatenation of the lists from index k on
RECURSIVE flatten(_, _)
flatten(lists, k) == IF k > Len(lists) THEN none ELSE lists[k] \o flatten(lists, k + 1)

PartsNone == [terms |-> none, conflicts |-> none]

\* p(term)
PartsOf(term) == [terms |-> <<term>>, conflicts |-> none]

\* Parts.ensureConflicts
partsEnsureConflicts(parts) ==
  IF parts.conflicts # none THEN parts.conflicts ELSE ensureConflicts(parts.terms)

\* Parts.concat with the first conflict of `other` pushed instead of joined
concatPushed(this, other) ==
  IF this = PartsNone THEN other
  ELSE IF other = PartsNone THEN this
  ELSE [terms |-> this.terms \o other.terms,
        conflicts |-> IF this.conflicts # none \/ other.conflicts # none
                      THEN partsEnsureConflicts(this) \o partsEnsureConflicts(other)
                      ELSE none]

\* Parts.concat
concat(this, other) ==
  IF this = PartsNone THEN other
  ELSE IF other = PartsNone THEN this
  ELSE [terms |-> this.terms \o other.terms,
        conflicts |->
          IF this.conflicts # none \/ other.conflicts # none
          THEN LET mine == partsEnsureConflicts(this)
                   otherConflicts == partsEnsureConflicts(other)
               IN [mine EXCEPT ![Len(mine)] = join(@, otherConflicts[1])]
                    \o SubSeq(otherConflicts, 2, Len(otherConflicts))
          ELSE none]

\* Parts.withConflicts; pos counts from 0
withConflicts(parts, pos, conflicts) ==
  IF conflicts = ConflictsNone THEN parts
  ELSE [terms |-> parts.terms,
        conflicts |-> [partsEnsureConflicts(parts) EXCEPT ![pos + 1] = join(@, conflicts)]]

\* Builder.conflictsFor(markers), from marker k: [here, atEnd]
RECURSIVE conflictsFor(_, _, _)
conflictsFor(markers, k, acc) ==
  IF k > Len(markers) THEN acc
  ELSE IF markers[k].type = "ambig"
  THEN conflictsFor(markers, k + 1,
         [acc EXCEPT !.here = join(@, {<<"ambig", markers[k].name>>})])
  ELSE conflictsFor(markers, k + 1,
         [here |-> join(acc.here, {<<"prec", markers[k].name>>}),
          atEnd |-> join(acc.atEnd, {<<"precEnd", markers[k].name>>})])

\* normalizeSequence's `complete`, result being the choices of the
\* elements of the sequence
RECURSIVE complete(_, _, _, _, _)
complete(result, markers, start, from, endConflicts) ==
  LET c == conflictsFor(markers[from + 1], 1, [here |-> ConflictsNone, atEnd |-> ConflictsNone])
      RECURSIVE choicesFrom(_)
      choicesFrom(i) ==
        IF i > Len(result[from + 1]) THEN none
        ELSE complete(result, markers,
                      withConflicts(concat(start, result[from + 1][i]), Len(start.terms), c.here),
                      from + 1, join(endConflicts, c.atEnd))
               \o choicesFrom(i + 1)
  IN IF from = Len(result)
     THEN <<withConflicts(start, Len(start.terms), join(c.here, endConflicts))>>
     ELSE choicesFrom(1)

\* Expression.toString
RECURSIVE ExprString(_)
ExprString(expr) ==
  LET RECURSIVE joined(_, _)
      joined(k, sep) ==
        IF k > Len(expr.exprs) THEN ""
        ELSE (IF k > 1 THEN sep ELSE "") \o ExprString(expr.exprs[k]) \o joined(k + 1, sep)
  IN IF expr.kind = "name" THEN expr.name
     ELSE IF expr.kind = "seq" THEN joined(1, " ")
     ELSE IF expr.kind = "choice" THEN joined(1, " | ")
     ELSE IF expr.exprs[1].kind \in {"seq", "choice"}
     THEN "(" \o ExprString(expr.exprs[1]) \o ")" \o expr.kind
     ELSE ExprString(expr.exprs[1]) \o expr.kind

\* Builder.newName(base, true)
newName(nonTerminals, base) ==
  IF base \notin nonTerminals THEN base
  ELSE IF base \o "-1" \notin nonTerminals THEN base \o "-1"
  ELSE base \o "-2"

\* built.find(b => b.matches(expr)) and built.find(b => b.matchesRepeat(expr))
builtFor(ctx, id, args) == {b \in ctx.built : b.id = id /\ b.args = args}

\* Builder.defineRule for Parts choices
defineParts(rules, name, choices, skip) ==
  rules \o [i \in 1..Len(choices) |->
              RuleOf(name, choices[i].terms, partsEnsureConflicts(choices[i]), skip)]

\* normalizeExpr, resolve with buildRule, normalizeRepeat, normalizeSequence:
\* [choices, ctx]
RECURSIVE normalizeExpr(_, _, _)
RECURSIVE normalizeAll(_, _, _, _, _)
\* expr.exprs.map(e => this.normalizeExpr(e)), from element k
normalizeAll(ast, ctx, exprs, k, acc) ==
  IF k > Len(exprs) THEN [results |-> acc, ctx |-> ctx]
  ELSE LET r == normalizeExpr(ast, ctx, exprs[k])
       IN normalizeAll(ast, r.ctx, exprs, k + 1, Append(acc, r.choices))

\* lines 527-549 and 632-653: a reference to a token or to a rule
resolve(ast, ctx, expr) ==
  IF builtFor(ctx, expr.name, none) # {}
  THEN [choices |-> <<PartsOf((CHOOSE b \in builtFor(ctx, expr.name, none) : TRUE).term)>>,
        ctx |-> ctx]
  ELSE IF expr.name \notin DOMAIN ast THEN [choices |-> <<PartsOf(expr.name)>>, ctx |-> ctx]
  ELSE LET name == newName(ctx.nonTerminals, expr.name)
           r == normalizeExpr(ast,
                  [ctx EXCEPT !.nonTerminals = @ \cup {name},
                              !.built = @ \cup {[id |-> expr.name, args |-> none, term |-> name]}],
                  ast[expr.name])
       IN [choices |-> <<PartsOf(name)>>,
           ctx |-> [r.ctx EXCEPT !.rules = defineParts(@, name, r.choices, noSkip)]]

\* BuiltRule.matchesRepeat finding no match
matchesRepeatNever(b, expr) == FALSE

\* BuiltRule.matchesRepeat(expr); exprEq is structural equality
matchesRepeat(b, expr) == b.id = expr.kind /\ b.args = <<expr.exprs[1]>>

\* lines 566-588
normalizeRepeat(ast, ctx, expr) ==
  IF \E b \in ctx.built : matchesRepeat(b, expr)
  THEN [choices |-> <<PartsOf((CHOOSE b \in ctx.built : matchesRepeat(b, expr)).term)>>,
        ctx |-> ctx]
  ELSE LET inner == newName(ctx.nonTerminals, ExprString(expr))
           withInner == ctx.nonTerminals \cup {inner}
           outer == IF expr.kind = "*" THEN newName(withInner, ExprString(expr) \o "-wrap")
                    ELSE inner
           wrapped == IF expr.kind = "*"
                      THEN defineParts(ctx.rules, outer, <<PartsNone, PartsOf(inner)>>, noSkip)
                      ELSE ctx.rules
           top == normalizeExpr(ast,
                    [rules |-> wrapped,
                     built |-> ctx.built \cup {[id |-> expr.kind, args |-> expr.exprs, term |-> outer]},
                     nonTerminals |-> withInner \cup {outer}],
                    expr.exprs[1])
           pair == [terms |-> <<inner, inner>>,
                    conflicts |-> <<ConflictsNone, {<<"prec", "repeat-1">>}, {<<"prec", "repeat">>}>>]
       IN [choices |-> <<PartsOf(outer)>>,
           ctx |-> [top.ctx EXCEPT !.rules = defineParts(@, inner, Append(top.choices, pair), noSkip)]]

\* lines 590-606
normalizeSequence(ast, ctx, expr) ==
  LET r == normalizeAll(ast, ctx, expr.exprs, 1, none)
  IN [choices |-> complete(r.results, expr.markers, PartsNone, 0, ConflictsNone), ctx |-> r.ctx]

\* lines 608-631
normalizeExpr(ast, ctx, expr) ==
  IF expr.kind = "?"
  THEN LET r == normalizeExpr(ast, ctx, expr.exprs[1])
       IN [choices |-> <<PartsNone>> \o r.choices, ctx |-> r.ctx]
  ELSE IF expr.kind \in {"*", "+"} THEN normalizeRepeat(ast, ctx, expr)
  ELSE IF expr.kind = "choice"
  THEN LET r == normalizeAll(ast, ctx, expr.exprs, 1, none)
       IN [choices |-> flatten(r.results, 1), ctx |-> r.ctx]
  ELSE IF expr.kind = "seq" THEN normalizeSequence(ast, ctx, expr)
  ELSE resolve(ast, ctx, expr)

\* the Builder's constructor, lines 168-171, for an expression
normalizedRules(ast, top) ==
  LET r == normalizeExpr(ast, [rules |-> none, built |-> {}, nonTerminals |-> {"program"}], top)
  IN defineParts(r.ctx.rules, "program", r.choices, noSkip)

(***************************************************************************)
(* The Builder driven on every grammar file with one rule declaration A    *)
(* and a top expression that is a sequence of up to MaxSeq elements with   *)
(* conflict markers: the constructor normalizes, getParser simplifies.     *)
(***************************************************************************)
MaxSeq == 2

NameExpression(name) == [kind |-> "name", name |-> name, exprs |-> none, markers |-> none]

RepeatExpression(kind, expr) == [kind |-> kind, name |-> "", exprs |-> <<expr>>, markers |-> none]

ChoiceExpression(exprs) == [kind |-> "choice", name |-> "", exprs |-> exprs, markers |-> none]

SequenceExpression(exprs, markers) ==
  [kind |-> "seq", name |-> "", exprs |-> exprs, markers |-> markers]

Markers ==
  {none, <<[type |-> "ambig", name |-> "a"]>>, <<[type |-> "prec", name |-> "p"]>>}

Elements ==
  {NameExpression("x"), NameExpression("A"),
   RepeatExpression("*", NameExpression("x")), RepeatExpression("+", NameExpression("y")),
   RepeatExpression("?", NameExpression("x")), RepeatExpression("+", NameExpression("A")),
   ChoiceExpression(<<NameExpression("x"), NameExpression("y")>>)}

TopExpressions ==
  UNION {{SequenceExpression(exprs, markers) :
            exprs \in [1..n -> Elements], markers \in [1..(n + 1) -> Markers]} :
         n \in 0..MaxSeq}

Declarations ==
  {NameExpression("y"),
   SequenceExpression(<<NameExpression("x"), NameExpression("y")>>,
                      <<none, <<[type |-> "prec", name |-> "p"]>>, none>>),
   SequenceExpression(none, <<<<[type |-> "ambig", name |-> "a"]>>>>),
   RepeatExpression("*", NameExpression("x")),
   SequenceExpression(<<NameExpression("x"), RepeatExpression("+", NameExpression("A"))>>,
                      <<none, none, none>>)}

InitNormalize ==
  /\ run = "normalize"
  /\ astRules \in [{"A"} -> Declarations]
  /\ topExpr \in TopExpressions
  /\ mainSkip = none
  /\ builtRules = none /\ simplified = none /\ simplifyPhase = "ast"
  /\ grammar = 1 /\ IdleAdd /\ IdleLR /\ IdleParse /\ IdleFirst /\ IdleTokens
  /\ IdleBuilder

\* new Builder(text), lines 168-171
NormalizeTop ==
  /\ run = "normalize" /\ simplifyPhase = "ast"
  /\ builtRules' = normalizedRules(astRules, topExpr)
  /\ simplifyPhase' = "defined"
  /\ UNCHANGED <<run, addVars, lrVars, parseVars, firstVars, tokenVars, builderVars,
                 astRules, topExpr, mainSkip, simplified>>

\* Builder.getParser, line 205
SimplifyNormalized ==
  /\ run = "normalize" /\ simplifyPhase = "defined"
  /\ simplified' = simplifyRules(builtRules, <<"program">>)
  /\ simplifyPhase' = "simplified"
  /\ UNCHANGED <<run, addVars, lrVars, parseVars, firstVars, tokenVars, builderVars,
                 astRules, topExpr, mainSkip, builtRules>>

NextNormalize == NormalizeTop \/ SimplifyNormalized

SpecNormalize == InitNormalize /\ [][NextNormalize]_vars

(***************************************************************************)
(* build.ts: TokenSet.buildTokenGroups.  An LR state is a record           *)
(* [actions, skip]: the terms of its actions in order and the name of its  *)
(* skip rule; a token group is the list of its tokens, its id the index    *)
(* in `groups` counted from 0.  tokenOrigins maps a token to "" (no        *)
(* entry), to the term it specializes, or to "external" (an external       *)
(* token set).  The conflicts of the compiled token automaton are an       *)
(* input: findConflicts belongs to the tokenizer module.                   *)
(***************************************************************************)
MaxGroups == 16

\* TokenSet.precededBy(a, b) over precedenceRelations, records [term, after]
precededBy(relations, a, b) ==
  /\ \E i \in 1..Len(relations) : relations[i].term = a
  /\ includes(relations[CHOOSE i \in 1..Len(relations) :
                 relations[i].term = a /\ \A j \in 1..(i - 1) : relations[j].term # a].after, b)

\* addToSet(set, value)
addToSet(set, value) == IF includes(set, value) THEN set ELSE Append(set, value)

\* lines 1109-1114: the conflicts no precedence resolves
unresolvedConflicts(relations, found) ==
  SelectSeq(found, LAMBDA c : ~precededBy(relations, c.a, c.b) /\ ~precededBy(relations, c.b, c.a))

\* lines 1109-1114: usedPrec
RECURSIVE usedPrecFrom(_, _, _)
usedPrecFrom(found, k, used) ==
  IF k > Len(found) THEN used
  ELSE usedPrecFrom(found, k + 1, addToSet(addToSet(used, found[k].a), found[k].b))

\* lines 1121-1125: the start state of the state's skip automaton, none
\* when the state has no skip rule or the rule no automaton
skipStart(input, st) ==
  IF st.skip = noSkip THEN none
  ELSE LET at == CHOOSE i \in 1..Len(input.skipRules) : input.skipRules[i] = st.skip
       IN IF input.skipStates[at] = none THEN none ELSE <<input.skipStates[at][1]>>

\* lines 1126-1129
skipClash(st, skip) ==
  skip # none /\ \E i \in 1..Len(skip[1].actions) : includes(st.actions, skip[1].actions[i])

\* lines 1142-1151 for one term: [hasConflict, incompatible, raised]
RECURSIVE conflictsOf(_, _, _, _, _)
conflictsOf(conflicts, c, term, st, acc) ==
  IF c > Len(conflicts) \/ acc.raised # "" THEN acc
  ELSE LET conflicting == IF conflicts[c].a = term THEN conflicts[c].b
                          ELSE IF conflicts[c].b = term THEN conflicts[c].a ELSE ""
       IN IF conflicting = "" THEN conflictsOf(conflicts, c + 1, term, st, acc)
          ELSE IF includes(acc.incompatible, conflicting)
          THEN conflictsOf(conflicts, c + 1, term, st, [acc EXCEPT !.hasConflict = TRUE])
          ELSE IF includes(st.actions, conflicting)
          THEN [acc EXCEPT !.hasConflict = TRUE, !.raised = "Overlapping tokens"]
          ELSE conflictsOf(conflicts, c + 1, term, st,
                 [acc EXCEPT !.hasConflict = TRUE,
                             !.incompatible = Append(@, conflicting)])

\* lines 1131-1153: the loop over the actions of the state and of its skip
\* start state; acc is [terms, hasTerms, incompatible, raised]
RECURSIVE scanTerms(_, _, _, _, _, _)
scanTerms(input, conflicts, st, all, i, acc) ==
  IF i > Len(all) \/ acc.raised # "" THEN acc
  ELSE LET orig == input.tokenOrigins[all[i]]
           term == IF orig = "" THEN all[i] ELSE orig
       IN IF orig = "external" \/ (orig # "" /\ includes(acc.terms, orig))
          THEN scanTerms(input, conflicts, st, all, i + 1, acc)
          ELSE LET r == conflictsOf(conflicts, 1, term, st,
                          [hasConflict |-> FALSE, incompatible |-> acc.incompatible,
                           raised |-> ""])
               IN scanTerms(input, conflicts, st, all, i + 1,
                    [terms |-> IF r.hasConflict /\ r.raised = "" THEN Append(acc.terms, term)
                               ELSE acc.terms,
                     hasTerms |-> TRUE,
                     incompatible |-> r.incompatible,
                     raised |-> r.raised])

\* addToSet of every term
RECURSIVE addAllToSet(_, _, _)
addAllToSet(set, terms, k) ==
  IF k > Len(terms) THEN set ELSE addAllToSet(addToSet(set, terms[k]), terms, k + 1)

\* lines 1156-1167 with the search of the existing groups left out
pickGroupAlwaysNew(groups, terms, incompatible) ==
  [groups |-> Append(groups, terms), tokenGroup |-> Len(groups)]

\* lines 1156-1167: the first group that holds none of the incompatible
\* terms takes the terms; a new group is made when there is none.
\* [groups, tokenGroup]
pickGroup(groups, terms, incompatible) ==
  LET fits(g) == ~\E k \in 1..Len(incompatible) : includes(groups[g], incompatible[k])
  IN IF \E g \in 1..Len(groups) : fits(g)
     THEN LET g == CHOOSE g \in 1..Len(groups) : fits(g) /\ \A h \in 1..(g - 1) : ~fits(h)
          IN [groups |-> [groups EXCEPT ![g] = addAllToSet(@, terms, 1)], tokenGroup |-> g - 1]
     ELSE [groups |-> Append(groups, terms), tokenGroup |-> Len(groups)]

\* checkState(state): [groups, tokenGroup, raised]; tokenGroup -1 when the
\* state is left without one
checkState(input, conflicts, groups, st) ==
  LET skip == skipStart(input, st)
      all == st.actions \o (IF skip = none THEN none ELSE skip[1].actions)
      scan == scanTerms(input, conflicts, st, all, 1,
                [terms |-> none, hasTerms |-> FALSE, incompatible |-> none, raised |-> ""])
  IN IF skipClash(st, skip)
     THEN [groups |-> groups, tokenGroup |-> -1, raised |-> "conflicts with skip rule"]
     ELSE IF scan.raised # ""
     THEN [groups |-> groups, tokenGroup |-> -1, raised |-> scan.raised]
     ELSE IF ~scan.hasTerms THEN [groups |-> groups, tokenGroup |-> -1, raised |-> ""]
     ELSE LET picked == pickGroup(groups, scan.terms, scan.incompatible)
          IN [groups |-> picked.groups, tokenGroup |-> picked.tokenGroup, raised |-> ""]

\* lines 1170-1171: the states checkState is called with, in order
statesToCheck(input) == input.states \o flatten(input.skipStates, 1)

(***************************************************************************)
(* buildTokenGroups driven on every input of up to MaxStates LR states     *)
(* over the tokens a, b, c, d and s, a token that specializes b or comes   *)
(* from an external token set, with one skip rule.                         *)
(***************************************************************************)
MaxStates == 4

LRState(actions, skip) == [actions |-> actions, skip |-> skip]

TokenActions == {<<"a">>, <<"b">>, <<"c">>, <<"d">>, <<"a", "b">>}

TokenStates ==
  {LRState(x, noSkip) : x \in TokenActions}
    \cup {LRState(<<"s", "a">>, "sk"), LRState(<<"c">>, "sk")}

TokenOrigins ==
  {[t \in {"a", "b", "c", "d", "s"} |-> IF t = "s" THEN o ELSE ""] : o \in {"b", "external"}}

FoundConflicts ==
  {none, <<[a |-> "a", b |-> "b"]>>, <<[a |-> "b", b |-> "c"]>>,
   <<[a |-> "a", b |-> "b"], [a |-> "c", b |-> "d"], [a |-> "b", b |-> "d"]>>}

Relations == {none, <<[term |-> "b", after |-> <<"a">>]>>}

SkipAutomata == {none, <<LRState(<<"c">>, noSkip)>>}

TokenInputs ==
  [tokenOrigins : TokenOrigins, found : FoundConflicts, relations : Relations,
   states : [1..MaxStates -> TokenStates],
   skipRules : {<<"sk">>}, skipStates : {<<x>> : x \in SkipAutomata}]

InitTokens ==
  /\ run = "tokens"
  /\ tokInput \in TokenInputs
  /\ tokConflicts = none /\ tokUsedPrec = none /\ tokGroups = none
  /\ tokAssigned = none /\ tokPhase = "start" /\ tokRaised = ""
  /\ grammar = 1 /\ IdleAdd /\ IdleLR /\ IdleParse /\ IdleFirst /\ IdleSimplify
  /\ IdleBuilder

\* lines 1107-1116
FilterConflicts ==
  /\ run = "tokens" /\ tokPhase = "start"
  /\ tokConflicts' = unresolvedConflicts(tokInput.relations, tokInput.found)
  /\ tokUsedPrec' = usedPrecFrom(tokInput.found, 1, none)
  /\ tokPhase' = "checking"
  /\ UNCHANGED <<run, addVars, lrVars, parseVars, firstVars, simplifyVars, builderVars,
                 tokInput, tokGroups, tokAssigned, tokRaised>>

\* one call of checkState in the loops of lines 1170-1171
CheckState ==
  /\ run = "tokens" /\ tokPhase = "checking"
  /\ Len(tokAssigned) < Len(statesToCheck(tokInput))
  /\ LET r == checkState(tokInput, tokConflicts, tokGroups,
                         statesToCheck(tokInput)[Len(tokAssigned) + 1])
     IN /\ tokGroups' = r.groups
        /\ tokAssigned' = Append(tokAssigned, r.tokenGroup)
        /\ tokRaised' = r.raised
        /\ tokPhase' = IF r.raised = "" THEN "checking" ELSE "raised"
  /\ UNCHANGED <<run, addVars, lrVars, parseVars, firstVars, simplifyVars, builderVars,
                 tokInput, tokConflicts, tokUsedPrec>>

\* lines 1174-1177
ReturnGroups ==
  /\ run = "tokens" /\ tokPhase = "checking"
  /\ Len(tokAssigned) = Len(statesToCheck(tokInput))
  /\ tokPhase' = IF Len(tokGroups) > MaxGroups THEN "raised" ELSE "returned"
  /\ tokRaised' = IF Len(tokGroups) > MaxGroups THEN "Too many different token groups" ELSE ""
  /\ UNCHANGED <<run, addVars, lrVars, parseVars, firstVars, simplifyVars, builderVars,
                 tokInput, tokConflicts, tokUsedPrec, tokGroups, tokAssigned>>

NextTokens == FilterConflicts \/ CheckState \/ ReturnGroups

SpecTokens == InitTokens /\ [][NextTokens]_vars

(***************************************************************************)
(* build.ts: TokenSet.takePrecedences.  A block of @precedence is the list *)
(* of the names of its items; `built` holds the tokens the set has built,  *)
(* a token's term written as its name.  A record of `rel` is               *)
(* [term, after].                                                          *)
(***************************************************************************)
\* lines 1062-1073: the terms of the items of a block that name a built
\* token (the others are warned about and left out)
knownTerms(built, group) == SelectSeq(group, LAMBDA item : item \in built)

\* rel.find(r => r.term == term): its index, 0 when there is none
findRecord(rel, term) ==
  IF \E i \in 1..Len(rel) : rel[i].term = term
  THEN CHOOSE i \in 1..Len(rel) :
         rel[i].term = term /\ \A j \in 1..(i - 1) : rel[j].term # term
  ELSE 0

\* lines 1074-1078 with the addToSet of an existing record left out
RECURSIVE relateTermsFirstOnly(_, _, _)
relateTermsFirstOnly(rel, terms, i) ==
  IF i > Len(terms) THEN rel
  ELSE IF findRecord(rel, terms[i]) = 0
       THEN relateTermsFirstOnly(
              Append(rel, [term |-> terms[i], after |-> SubSeq(terms, 1, i - 1)]), terms, i + 1)
       ELSE relateTermsFirstOnly(rel, terms, i + 1)

\* lines 1074-1078: the loop over the terms of one block, from index i
RECURSIVE relateTerms(_, _, _)
relateTerms(rel, terms, i) ==
  IF i > Len(terms) THEN rel
  ELSE LET found == findRecord(rel, terms[i])
       IN IF found = 0
          THEN relateTerms(
                 Append(rel, [term |-> terms[i], after |-> SubSeq(terms, 1, i - 1)]), terms, i + 1)
          ELSE relateTerms(
                 [rel EXCEPT ![found].after = addAllToSet(@, SubSeq(terms, 1, i - 1), 1)],
                 terms, i + 1)

\* lines 1060-1079: the loop over the blocks, from block k
RECURSIVE relateBlocks(_, _, _, _)
relateBlocks(built, blocks, k, rel) ==
  IF k > Len(blocks) THEN rel
  ELSE relateBlocks(built, blocks, k + 1, relateTerms(rel, knownTerms(built, blocks[k]), 1))

\* line 1087: record.after.every(t => ordered.includes(t))
ready(record, ordered) == \A j \in 1..Len(record.after) : includes(ordered, record.after[j])

\* lines 1085-1087: the first record of rel all of whose `after` terms are
\* in ordered; 0 when there is none
firstReady(rel, ordered) ==
  IF \E i \in 1..Len(rel) : ready(rel[i], ordered)
  THEN CHOOSE i \in 1..Len(rel) :
         ready(rel[i], ordered) /\ \A j \in 1..(i - 1) : ~ready(rel[j], ordered)
  ELSE 0

\* lines 1089-1090: rel.pop(), and the popped record put at i unless i was
\* the last index
removeRecord(rel, i) ==
  LET popped == SubSeq(rel, 1, Len(rel) - 1)
  IN IF i <= Len(popped) THEN [popped EXCEPT ![i] = rel[Len(rel)]] ELSE popped

(***************************************************************************)
(* takePrecedences driven on every @precedence declaration of up to        *)
(* MaxPrecItems items and block boundaries, over the built tokens a, b, c  *)
(* and the unknown name u; one turn of the loop `add` at a time.           *)
(***************************************************************************)
MaxPrecItems == 6

Built == {"a", "b", "c"}

\* the blocks a declaration written as items and boundaries "|" holds
RECURSIVE SplitBlocks(_, _, _)
SplitBlocks(items, k, blocks) ==
  IF k > Len(items) THEN blocks
  ELSE IF items[k] = "|" THEN SplitBlocks(items, k + 1, Append(blocks, none))
  ELSE SplitBlocks(items, k + 1, [blocks EXCEPT ![Len(blocks)] = Append(@, items[k])])

PrecedenceDeclarations ==
  {SplitBlocks(items, 1, <<none>>) :
     items \in UNION {[1..n -> Built \cup {"u", "|"}] : n \in 0..MaxPrecItems}}

InitPrec ==
  /\ run = "precedences"
  /\ precAst \in PrecedenceDeclarations
  /\ precedenceRelations = none /\ precRel = none /\ precOrdered = none
  /\ precPhase = "start"
  /\ grammar = 1 /\ IdleAdd /\ IdleLR /\ IdleParse /\ IdleFirst /\ IdleSimplify /\ IdleTokens
  /\ IdleSpecialize /\ IdleCharSet /\ IdleTable

\* lines 1059-1083
TakeRelations ==
  /\ run = "precedences" /\ precPhase = "start"
  /\ precRel' = relateBlocks(Built, precAst, 1, none)
  /\ precedenceRelations' = precRel'
  /\ precPhase' = "ordering"
  /\ UNCHANGED <<run, addVars, lrVars, parseVars, firstVars, simplifyVars, tokenVars,
                 specializeVars, charSetVars, tableVars, precAst, precOrdered>>

\* lines 1085-1092: a turn of the loop `add` that finds a record
TakeRecord ==
  /\ run = "precedences" /\ precPhase = "ordering"
  /\ firstReady(precRel, precOrdered) # 0
  /\ precOrdered' = Append(precOrdered, precRel[firstReady(precRel, precOrdered)].term)
  /\ precRel' = removeRecord(precRel, firstReady(precRel, precOrdered))
  /\ UNCHANGED <<run, addVars, lrVars, parseVars, firstVars, simplifyVars, tokenVars,
                 specializeVars, charSetVars, tableVars, precAst, precedenceRelations, precPhase>>

\* lines 1094-1098: the turn that finds none
TakeEnd ==
  /\ run = "precedences" /\ precPhase = "ordering"
  /\ firstReady(precRel, precOrdered) = 0
  /\ precPhase' = IF Len(precRel) > 0 THEN "raised" ELSE "ordered"
  /\ UNCHANGED <<run, addVars, lrVars, parseVars, firstVars, simplifyVars, tokenVars,
                 specializeVars, charSetVars, tableVars, precAst, precedenceRelations, precRel, precOrdered>>

NextPrec == TakeRelations \/ TakeRecord \/ TakeEnd

SpecPrec == InitPrec /\ [][NextPrec]_vars

(***************************************************************************)
(* build.ts: Builder.resolveSpecialization.  A call is given its kind      *)
(* ("specialize" or "extend"), the name its first argument resolves to     *)
(* and the literal values of its second argument; an entry of a table is   *)
(* [value, term, type].  A term made for a specialization is the record    *)
(* [base, value, n]: the name base/"value", with the suffix -n when n > 0. *)
(***************************************************************************)
\* Builder.makeTerminal: the first name of name, name-1, name-2, ... that
\* no terminal has
RECURSIVE makeTerminal(_, _, _, _)
makeTerminal(made, base, value, n) ==
  IF [base |-> base, value |-> value, n |-> n] \in made
  THEN makeTerminal(made, base, value, n + 1)
  ELSE [base |-> base, value |-> value, n |-> n]

\* line 688 finding nothing
findKnownNever(table, value) == 0

\* line 688: table.find(sp => sp.value == value), 0 when there is none
findKnown(table, value) ==
  IF \E i \in 1..Len(table) : table[i].value = value
  THEN CHOOSE i \in 1..Len(table) :
         table[i].value = value /\ \A j \in 1..(i - 1) : table[j].value # value
  ELSE 0

\* lines 687-701: the loop over the values, from index k; acc is
\* [table, origins, made, token, raised], token none while it is null
RECURSIVE specializeValues(_, _, _, _, _)
specializeValues(type, base, values, k, acc) ==
  IF k > Len(values) \/ acc.raised # "" THEN acc
  ELSE LET known == findKnown(acc.table, values[k])
       IN IF known = 0
          THEN LET token == IF acc.token = none
                            THEN <<makeTerminal(acc.made, base, values[k], 0)>>
                            ELSE acc.token
               IN specializeValues(type, base, values, k + 1,
                    [table |-> Append(acc.table,
                                 [value |-> values[k], term |-> token[1], type |-> type]),
                     origins |-> acc.origins \cup {<<token[1], base>>},
                     made |-> acc.made \cup {token[1]},
                     token |-> token, raised |-> ""])
          ELSE IF acc.table[known].type # type
          THEN [acc EXCEPT !.raised = "Conflicting specialization types"]
          ELSE IF acc.token # none /\ acc.table[known].term # acc.token[1]
          THEN [acc EXCEPT !.raised = "Conflicting specialization tokens"]
          ELSE specializeValues(type, base, values, k + 1,
                 [acc EXCEPT !.token = <<acc.table[known].term>>])

\* resolveSpecialization(expr): [specialized, origins, made, token, raised]
resolveSpecialization(tables, origins, made, tokens, type, base, values) ==
  IF base \notin tokens
  THEN [specialized |-> tables, origins |-> origins, made |-> made, token |-> none,
        raised |-> "must resolve to a token"]
  ELSE LET r == specializeValues(type, base, values, 1,
                  [table |-> tables[base], origins |-> origins, made |-> made,
                   token |-> none, raised |-> ""])
       IN [specialized |-> [tables EXCEPT ![base] = r.table], origins |-> r.origins,
           made |-> r.made, token |-> r.token, raised |-> r.raised]

(***************************************************************************)
(* resolveSpecialization called up to MaxSpecCalls times, each call with   *)
(* up to MaxValues literals, on the tokens id and num and the              *)
(* non-terminal Expr; a call that raised ends the build.                   *)
(***************************************************************************)
MaxSpecCalls == 3

MaxValues == 3

BaseTokens == {"id", "num"}

Literals == {"if", "in"}

InitSpecialize ==
  /\ run = "specialize"
  /\ specialized = [b \in BaseTokens |-> none]
  /\ tokenOrigins = {} /\ madeTerminals = {} /\ specCalls = 0
  /\ specLast = [type |-> "", base |-> "", values |-> none, token |-> none, raised |-> "",
                 before |-> [b \in BaseTokens |-> none]]
  /\ grammar = 1 /\ IdleAdd /\ IdleLR /\ IdleParse /\ IdleFirst /\ IdleSimplify /\ IdleTokens
  /\ IdlePrec /\ IdleCharSet /\ IdleTable

\* one @specialize or @extend expression met by the normalizer
ResolveSpecialization ==
  /\ run = "specialize" /\ specCalls < MaxSpecCalls /\ specLast.raised = ""
  /\ \E type \in {"specialize", "extend"}, base \in BaseTokens \cup {"Expr"},
        values \in UNION {[1..n -> Literals] : n \in 1..MaxValues} :
       LET r == resolveSpecialization(specialized, tokenOrigins, madeTerminals, BaseTokens,
                                      type, base, values)
       IN /\ specialized' = r.specialized
          /\ tokenOrigins' = r.origins
          /\ madeTerminals' = r.made
          /\ specLast' = [type |-> type, base |-> base, values |-> values, token |-> r.token,
                          raised |-> r.raised, before |-> specialized]
  /\ specCalls' = specCalls + 1
  /\ UNCHANGED <<run, addVars, lrVars, parseVars, firstVars, simplifyVars, tokenVars,
                 precVars, charSetVars, tableVars>>

NextSpecialize == ResolveSpecialization

SpecSpecialize == InitSpecialize /\ [][NextSpecialize]_vars

(***************************************************************************)
(* build.ts: rangeEdges and invertRanges.  The tokenizer reads UTF-16 code *)
(* units; an edge [from, low, hi, to] takes the units low <= unit < hi     *)
(* from state `from` to state `to`.  The states are numbered: 0 is the     *)
(* `from` and 1 the `to` of the set expression, the intermediate states    *)
(* follow.                                                                 *)
(***************************************************************************)
ASTRAL == 65536

GAP_START == 55296

GAP_END == 57344

MAX_CODE == 1114111

LOW_SURR_B == 56320

HIGH_SURR_B == 57343

MAX_CHAR == 65535

MathMin(a, b) == IF a < b THEN a ELSE b

MathMax(a, b) == IF a > b THEN a ELSE b

\* String.fromCodePoint(code): the code units of the string
fromCodePoint(code) ==
  IF code < ASTRAL THEN <<code>>
  ELSE <<GAP_START + ((code - ASTRAL) \div 1024), LOW_SURR_B + ((code - ASTRAL) % 1024)>>

\* State.edge(low, hi, to)
edge(set, from, low, hi, to) == set \cup {[from |-> from, low |-> low, hi |-> hi, to |-> to]}

\* lines 1181-1189, from range k with `pos`
RECURSIVE invertFrom(_, _, _)
invertFrom(ranges, k, pos) ==
  IF k > Len(ranges)
  THEN IF pos <= MAX_CODE THEN <<<<pos, MAX_CODE + 1>>>> ELSE none
  ELSE (IF ranges[k][1] > pos THEN <<<<pos, ranges[k][1]>>>> ELSE none)
         \o invertFrom(ranges, k + 1, ranges[k][2])

invertRanges(ranges) == invertFrom(ranges, 1, 0)

\* lines 1202-1205: the edges for the part of the range below ASTRAL
bmpEdges(set, low, hi) ==
  LET below == IF low < GAP_START THEN edge(set, 0, low, MathMin(hi, GAP_START), 1) ELSE set
  IN IF hi > GAP_END
     THEN edge(below, 0, MathMax(low, GAP_END), MathMin(hi, MAX_CHAR + 1), 1)
     ELSE below

\* lines 1210-1235: the edges for the astral part, `low` being at least
\* ASTRAL; charCodeAt(1) of a string of one unit is NaN, which compares
\* false with everything.  [edges, next]
astralEdges(set, next, low, hi) ==
  LET lowStr == fromCodePoint(low)
      hiStr == fromCodePoint(hi - 1)
      lowA == lowStr[1]
      lowB == lowStr[2]
      hiA == hiStr[1]
      cutLow == lowB > LOW_SURR_B
      cutHi == Len(hiStr) > 1 /\ hiStr[2] < HIGH_SURR_B
      midStart == IF cutLow THEN lowA + 1 ELSE lowA
      midEnd == IF cutHi THEN hiA - 1 ELSE hiA
      hop1 == next
      with1 == IF cutLow
               THEN edge(edge(set, 0, lowA, lowA + 1, hop1), hop1, lowB, HIGH_SURR_B + 1, 1)
               ELSE set
      hop2 == IF cutLow THEN hop1 + 1 ELSE hop1
      with2 == IF cutHi
               THEN edge(edge(with1, 0, hiA, hiA + 1, hop2), hop2, LOW_SURR_B, hiStr[2] + 1, 1)
               ELSE with1
      hop3 == IF cutHi THEN hop2 + 1 ELSE hop2
      with3 == IF midStart <= midEnd
               THEN edge(edge(with2, 0, midStart, midEnd + 1, hop3),
                         hop3, LOW_SURR_B, HIGH_SURR_B + 1, 1)
               ELSE with2
  IN IF lowA = hiA
     THEN [edges |-> edge(edge(set, 0, lowA, lowA + 1, next), next, lowB, hiStr[2] + 1, 1),
           next |-> next + 1]
     ELSE [edges |-> with3, next |-> IF midStart <= midEnd THEN hop3 + 1 ELSE hop3]

\* rangeEdges(from, to, low, hi): [edges, next], next the number of the
\* next state to be made
rangeEdges(set, next, low, hi) ==
  IF low < GAP_START /\ hi = MAX_CODE + 1
  THEN [edges |-> edge(set, 0, low, MAX_CHAR + 1, 1), next |-> next]
  ELSE LET bmp == IF low < ASTRAL THEN bmpEdges(set, low, hi) ELSE set
           from == IF low < ASTRAL THEN ASTRAL ELSE low
       IN IF hi < ASTRAL THEN [edges |-> bmp, next |-> next]
          ELSE astralEdges(bmp, next, from, hi)

(***************************************************************************)
(* TokenSet.build driven on every set expression of up to MaxRanges        *)
(* ranges, plain or inverted, whose bounds are drawn from RangeBounds.     *)
(***************************************************************************)
MaxRanges == 2

RangeBounds ==
  {0, 128, GAP_START, LOW_SURR_B, GAP_END, ASTRAL, ASTRAL + 1, ASTRAL + 1024,
   MAX_CODE, MAX_CODE + 1}

\* the lists of ranges in ascending order
SetRanges ==
  UNION {{ranges \in [1..n -> {r \in RangeBounds \X RangeBounds : r[1] < r[2]}] :
            \A k \in 1..(n - 1) : ranges[k][2] <= ranges[k + 1][1]} : n \in 1..MaxRanges}

InitCharSet ==
  /\ run = "charset"
  /\ charSet \in [ranges : SetRanges, inverted : BOOLEAN]
  /\ pendingRanges = none /\ edges = {} /\ hops = 0 /\ setPhase = "start"
  /\ grammar = 1 /\ IdleAdd /\ IdleLR /\ IdleParse /\ IdleFirst /\ IdleSimplify /\ IdleTokens
  /\ IdlePrec /\ IdleSpecialize /\ IdleTable

\* line 1027: the ranges the loop runs over
TakeRanges ==
  /\ run = "charset" /\ setPhase = "start"
  /\ pendingRanges' = IF charSet.inverted THEN invertRanges(charSet.ranges) ELSE charSet.ranges
  /\ setPhase' = "ranges"
  /\ UNCHANGED <<run, addVars, lrVars, parseVars, firstVars, simplifyVars, tokenVars,
                 precVars, specializeVars, tableVars, charSet, edges, hops>>

\* line 1028: rangeEdges(from, to, a, b) for the next range
RangeEdges ==
  /\ run = "charset" /\ setPhase = "ranges" /\ pendingRanges # none
  /\ LET r == rangeEdges(edges, hops + 2, pendingRanges[1][1], pendingRanges[1][2])
     IN edges' = r.edges /\ hops' = r.next - 2
  /\ pendingRanges' = Tail(pendingRanges)
  /\ UNCHANGED <<run, addVars, lrVars, parseVars, firstVars, simplifyVars, tokenVars,
                 precVars, specializeVars, tableVars, charSet, setPhase>>

NextCharSet == TakeRanges \/ RangeEdges

SpecCharSet == InitCharSet /\ [][NextCharSet]_vars

(***************************************************************************)
(* build.ts 405-407, in Builder.finishState: the item the forced reduce is *)
(* taken from.  In `a.pos - b.pos || b.rule.parts.length -                 *)
(* a.rule.parts.length < 0 ? b : a` the conditional binds loosest, then    *)
(* `||`, then `<`: b is taken when the dots differ or b's rule is shorter. *)
(***************************************************************************)
defaultPos(G, set) ==
  LET positions == SelectSeq(set, LAMBDA p : p.pos > 0)
      length(p) == Len(G.rules[p.rule].parts)
      callback(a, b) == IF a.pos - b.pos # 0 \/ length(b) - length(a) < 0 THEN b ELSE a
      RECURSIVE reduce(_, _)
      reduce(a, k) == IF k > Len(positions) THEN a ELSE reduce(callback(a, positions[k]), k + 1)
  IN reduce(positions[1], 2)

(***************************************************************************)
(* build.ts 741-770: findArray and the DataBuilder.  Offsets count from 0  *)
(* as in the source; the sequences of the model count from 1.              *)
(***************************************************************************)
MaxStores == 3

MaxArray == 2

\* the numbers stored
Nums == {0, 1}

RECURSIVE findArrayFrom(_, _, _)
\* lines 742-752: the loop `search` from the offset i on
findArrayFrom(data, value, i) ==
  LET \* data.indexOf(value[0], i); value[0] is undefined for an empty value
      next == IF value = none THEN -1
              ELSE LeastOf({k \in i..(Len(data) - 1) : data[k + 1] = value[1]}, -1)
  IN IF next = -1 \/ next + Len(value) > Len(data) THEN -1
     ELSE IF \E j \in 1..(Len(value) - 1) : value[j + 1] # data[next + j + 1]
     THEN findArrayFrom(data, value, next + 1)
     ELSE next

\* findArray taking the first place where value[0] stands
findArrayHead(data, value) ==
  IF value = none THEN -1 ELSE LeastOf({k \in 0..(Len(data) - 1) : data[k + 1] = value[1]}, -1)

\* lines 741-754
findArray(data, value) == findArrayFrom(data, value, 0)

\* lines 759-765: the DataBuilder's data afterwards and the offset returned
storeArray(builder, data) ==
  LET found == findArray(builder, data)
  IN IF found > -1 THEN [data |-> builder, pos |-> found]
     ELSE [data |-> builder \o data, pos |-> Len(builder)]

Arrays == UNION {[1..n -> Nums] : n \in 0..MaxArray}

InitData ==
  /\ run = "data"
  /\ dbData = none /\ dbStored = none
  /\ IdleAdd /\ IdleLR /\ IdleParse /\ IdleFirst /\ IdleSimplify /\ IdleTokens
  /\ IdlePrec /\ IdleSpecialize /\ IdleCharSet /\ IdleGoto /\ IdleTokenSet
  /\ grammar = 1

\* one call data.storeArray(array)
StoreArray ==
  /\ run = "data" /\ Len(dbStored) < MaxStores
  /\ \E array \in Arrays :
       LET r == storeArray(dbData, array)
       IN /\ dbData' = r.data
          /\ dbStored' = Append(dbStored, [array |-> array, pos |-> r.pos])
  /\ UNCHANGED <<run, addVars, lrVars, parseVars, firstVars, simplifyVars, tokenVars,
                 precVars, specializeVars, charSetVars, gotoVars, tokenSetVars>>

NextData == StoreArray

SpecData == InitData /\ [][NextData]_vars

(***************************************************************************)
(* build.ts 798-830: computeGotoTable.  A state is [id, goto], goto a list *)
(* of [term, target] holding term and state ids.                           *)
(***************************************************************************)
MaxGotoStates == 2

\* the ids of the terms that may have gotos
GotoTerms == <<1, 3>>

\* lines 801-806: goto[term], the start states of each target in the order
\* of `states`; its domain is empty where the source has no goto[term]
gotoOf(states, term) ==
  LET on(i, t) == \E k \in 1..Len(states[i].goto) :
                    states[i].goto[k] = [term |-> term, target |-> t]
      targets == {t \in 0..(Len(states) - 1) : \E i \in 1..Len(states) : on(i, t)}
      starts(t) == SelectSeq([i \in 1..Len(states) |-> i], LAMBDA i : on(i, t))
  IN [t \in targets |-> [k \in 1..Len(starts(t)) |-> states[starts(t)[k]].id]]

\* termTable leaving the first bit of every record unset
termTableOpen(entries) ==
  LET RECURSIVE From(_)
      From(keys) ==
        IF keys = {} THEN none
        ELSE LET target == LeastOf(keys, 0)
             IN <<2 * Len(entries[target]), target>> \o entries[target]
                  \o From(keys \ {target})
  IN From(DOMAIN entries)

\* lines 818-825: the records of one term; Object.keys lists the integer
\* keys of `entries` in ascending order
termTable(entries) ==
  LET RECURSIVE From(_)
      From(keys) ==
        IF keys = {} THEN none
        ELSE LET target == LeastOf(keys, 0)
             IN <<(IF keys = {target} THEN 1 ELSE 0) + 2 * Len(entries[target]), target>>
                  \o entries[target] \o From(keys \ {target})
  IN From(DOMAIN entries)

\* lines 798-830: the Uint16Array returned, or the message of the Error
computeGotoTable(states) ==
  LET terms == UNION {{states[i].goto[k].term : k \in 1..Len(states[i].goto)} :
                        i \in 1..Len(states)}
      maxTerm == IF terms = {} THEN 0 ELSE CHOOSE t \in terms : \A u \in terms : u <= t
      offset == maxTerm + 2
      RECURSIVE Terms(_, _, _)
      Terms(term, data, index) ==
        IF term > maxTerm THEN [data |-> data, index |-> index]
        ELSE IF term \notin terms THEN Terms(term + 1, data, Append(index, 1))
        ELSE LET r == storeArray(data, termTable(gotoOf(states, term)))
             IN Terms(term + 1, r.data, Append(index, r.pos + offset))
      done == Terms(0, none, none)
      array == <<maxTerm + 1>> \o done.index \o done.data
  IN IF \E k \in 1..Len(done.index) : done.index[k] > 65535 THEN "Goto table too large"
     ELSE [k \in 1..Len(array) |-> array[k] % 65536]

\* the states whose gotos the function f gives: f[i, t] is the target of
\* state i on the t-th term, -1 for none
GotoStatesOf(f) ==
  [i \in 1..MaxGotoStates |->
     LET had == SelectSeq([t \in 1..Len(GotoTerms) |-> t], LAMBDA t : f[i, t] >= 0)
     IN [id |-> i - 1,
         goto |-> [k \in 1..Len(had) |-> [term |-> GotoTerms[had[k]], target |-> f[i, had[k]]]]]]

InitGoto ==
  /\ run = "goto"
  /\ \E f \in [(1..MaxGotoStates) \X (1..Len(GotoTerms)) -> -1..(MaxGotoStates - 1)] :
       gotoStates = GotoStatesOf(f)
  /\ gotoTable = none
  /\ IdleAdd /\ IdleLR /\ IdleParse /\ IdleFirst /\ IdleSimplify /\ IdleTokens
  /\ IdlePrec /\ IdleSpecialize /\ IdleCharSet /\ IdleData /\ IdleTokenSet
  /\ grammar = 1

\* the call computeGotoTable(states)
ComputeGotoTable ==
  /\ run = "goto" /\ gotoTable = none
  /\ gotoTable' = computeGotoTable(gotoStates)
  /\ UNCHANGED <<run, addVars, lrVars, parseVars, firstVars, simplifyVars, tokenVars,
                 precVars, specializeVars, charSetVars, dataVars, tokenSetVars, gotoStates>>

NextGoto == ComputeGotoTable

SpecGoto == InitGoto /\ [][NextGoto]_vars

(***************************************************************************)
(* build.ts 917-1042: the TokenSet building the automaton of a token.  An  *)
(* expression is [kind, name, args, exprs, value]: a reference to a rule   *)
(* or parameter ("name", with args), "choice", "seq", a repeat ("*", "+",  *)
(* "?") or a "literal" whose value is a list of character codes.  States   *)
(* are numbered as they are made; an edge is [from, low, hi, to], a null   *)
(* edge having low = hi = -1.  The TokenSet is [next, edges, building,     *)
(* error]: the number of states made, the edges of all of them, the stack  *)
(* `building`, and the Error raised (message "" for none).  Namespaced     *)
(* names, sets and `_` do not occur in the expressions built here.         *)
(***************************************************************************)
TokenName(name, args) ==
  [kind |-> "name", name |-> name, args |-> args, exprs |-> none, value |-> none]

TokenLiteral(value) ==
  [kind |-> "literal", name |-> "", args |-> none, exprs |-> none, value |-> value]

TokenGroup(kind, exprs) ==
  [kind |-> kind, name |-> "", args |-> none, exprs |-> exprs, value |-> none]

\* State.nullEdge(to)
nullEdge(set, from, to) == edge(set, from, -1, -1, to)

NoTokenError == [message |-> "", names |-> none]

\* Builder.raise
raiseIn(tokens, message, names) ==
  [tokens EXCEPT !.error = [message |-> message, names |-> names]]

RECURSIVE substituteArgs(_, _, _)
\* lines 441-461; expr.walk calls the function on the parts of an
\* expression first, then on the expression made of the results
substituteArgs(expr, args, params) ==
  IF args = none THEN expr
  ELSE LET walked ==
             [expr EXCEPT !.exprs = [k \in 1..Len(expr.exprs) |->
                                       substituteArgs(expr.exprs[k], args, params)],
                          !.args = [k \in 1..Len(expr.args) |->
                                      substituteArgs(expr.args[k], args, params)]]
           found == LeastOf({i \in 1..Len(params) : params[i] = walked.name}, 0)
       IN IF walked.kind = "name" /\ found > 0
          THEN IF walked.args # none
               THEN IF args[found].kind = "name" /\ args[found].args = none
                    THEN TokenName(args[found].name, walked.args)
                    ELSE [kind |-> "raise", name |-> "Passing arguments to a parameter that already has arguments",
                          args |-> none, exprs |-> none, value |-> none]
               ELSE args[found]
          ELSE walked

\* line 968 matching on the name alone
buildingFindName(building, expr) ==
  LeastOf({i \in 1..Len(building) : building[i].name = expr.name}, 0)

\* line 968: this.building.find(b => b.name == name && exprsEq(expr.args, b.args)),
\* as the index of the entry found, 0 for none
buildingFind(building, expr) ==
  LeastOf({i \in 1..Len(building) : building[i].name = expr.name /\ building[i].args = expr.args}, 0)

RECURSIVE TokenSet_build(_, _, _, _, _, _)
\* lines 964-986
TokenSet_buildRule(rules, tokens, rule, expr, from, to, args) ==
  LET name == expr.name
      building == buildingFind(tokens.building, expr)
      lastIndex == CHOOSE i \in 1..Len(tokens.building) :
                     /\ tokens.building[i].name = name
                     /\ \A j \in (i + 1)..Len(tokens.building) : tokens.building[j].name # name
      start == tokens.next
      begun == [tokens EXCEPT !.next = start + 1,
                              !.edges = nullEdge(@, from, start),
                              !.building = Append(@, [name |-> name, start |-> start,
                                                      to |-> to, args |-> expr.args])]
      body == substituteArgs(rule.expr, expr.args, rule.params)
      built == TokenSet_build(rules, begun, body, start, to,
                              [i \in 1..Len(expr.args) |->
                                 [name |-> rule.params[i], expr |-> expr.args[i], scope |-> args]])
  IN IF Len(rule.params) # Len(expr.args)
     THEN raiseIn(tokens, "Incorrect number of arguments for token", <<name>>)
     ELSE IF building # 0
     THEN IF tokens.building[building].to = to
          THEN [tokens EXCEPT !.edges = nullEdge(@, from, tokens.building[building].start)]
          ELSE raiseIn(tokens, "Invalid (non-tail) recursion in token rules",
                       [k \in 1..(Len(tokens.building) - lastIndex + 1) |->
                          tokens.building[lastIndex + k - 1].name])
     ELSE IF body.kind = "raise" THEN raiseIn(begun, body.name, none)
     ELSE IF built.error # NoTokenError THEN built
     ELSE [built EXCEPT !.building = SubSeq(@, 1, Len(@) - 1)]

\* lines 988-1042
TokenSet_build(rules, tokens, expr, from, to, args) ==
  LET arg == LeastOf({i \in 1..Len(args) : args[i].name = expr.name}, 0)
      rule == LeastOf({i \in 1..Len(rules) : rules[i].name = expr.name}, 0)
      RECURSIVE choices(_, _)
      choices(t, i) ==
        IF i > Len(expr.exprs) \/ t.error # NoTokenError THEN t
        ELSE choices(TokenSet_build(rules, t, expr.exprs[i], from, to, args), i + 1)
      RECURSIVE sequence(_, _, _)
      sequence(t, i, at) ==
        IF i > Len(expr.exprs) \/ t.error # NoTokenError THEN t
        ELSE IF i = Len(expr.exprs)
        THEN TokenSet_build(rules, t, expr.exprs[i], at, to, args)
        ELSE sequence(TokenSet_build(rules, [t EXCEPT !.next = @ + 1], expr.exprs[i],
                                     at, t.next, args), i + 1, t.next)
      RECURSIVE characters(_, _, _)
      characters(t, i, at) ==
        IF i > Len(expr.value) THEN t
        ELSE IF i = Len(expr.value)
        THEN [t EXCEPT !.edges = edge(@, at, expr.value[i], expr.value[i] + 1, to)]
        ELSE characters([t EXCEPT !.next = @ + 1,
                                  !.edges = edge(@, at, expr.value[i], expr.value[i] + 1, t.next)],
                        i + 1, t.next)
      loop == tokens.next
      looped == [tokens EXCEPT !.next = loop + 1]
      then(t, f(_)) == IF t.error # NoTokenError THEN t ELSE f(t)
  IN IF expr.kind = "name"
     THEN IF arg # 0 THEN TokenSet_build(rules, tokens, args[arg].expr, from, to, args[arg].scope)
          ELSE IF rule = 0
          THEN raiseIn(tokens, "Reference to rule, which isn't found in this token group",
                       <<expr.name>>)
          ELSE TokenSet_buildRule(rules, tokens, rules[rule], expr, from, to, args)
     ELSE IF expr.kind = "choice" THEN choices(tokens, 1)
     ELSE IF expr.kind = "seq" /\ expr.exprs = none
     THEN [tokens EXCEPT !.edges = nullEdge(@, from, to)]
     ELSE IF expr.kind = "seq" THEN sequence(tokens, 1, from)
     ELSE IF expr.kind = "*"
     THEN then(TokenSet_build(rules, [looped EXCEPT !.edges = nullEdge(@, from, loop)],
                              expr.exprs[1], loop, loop, args),
               LAMBDA t : [t EXCEPT !.edges = nullEdge(@, loop, to)])
     ELSE IF expr.kind = "+"
     THEN then(then(TokenSet_build(rules, looped, expr.exprs[1], from, loop, args),
                    LAMBDA t : TokenSet_build(rules, t, expr.exprs[1], loop, loop, args)),
               LAMBDA t : [t EXCEPT !.edges = nullEdge(@, loop, to)])
     ELSE IF expr.kind = "?"
     THEN TokenSet_build(rules, [tokens EXCEPT !.edges = nullEdge(@, from, to)],
                         expr.exprs[1], from, to, args)
     ELSE IF expr.kind = "literal" THEN characters(tokens, 1, from)
     ELSE raiseIn(tokens, "Unrecognized expression type in token", none)

\* lines 938-951, for a name no token was built for yet: startState is
\* state 0 and new State([term]) state 1
getToken(rules, expr) ==
  LET rule == LeastOf({i \in 1..Len(rules) : rules[i].name = expr.name}, 0)
  IN TokenSet_buildRule(rules, [next |-> 2, edges |-> {}, building |-> none,
                                error |-> NoTokenError],
                        rules[rule], expr, 0, 1, none)

LitX == TokenLiteral(<<120>>)

LitY == TokenLiteral(<<121>>)

\* the expressions of the rule a
ABodies ==
  {LitX, TokenName("a", none),
   TokenGroup("seq", <<LitX, TokenName("a", none)>>),
   TokenGroup("seq", <<TokenName("a", none), LitX>>),
   TokenGroup("choice", <<LitY, TokenGroup("seq", <<LitX, TokenName("a", none)>>)>>),
   TokenGroup("seq", <<LitX, TokenName("b", <<LitX>>)>>),
   TokenGroup("seq", <<TokenName("b", <<LitY>>), LitX>>),
   TokenGroup("choice", <<LitY, TokenGroup("*", <<TokenName("a", none)>>)>>),
   TokenGroup("?", <<TokenGroup("seq", <<LitX, TokenName("a", none)>>)>>),
   TokenGroup("+", <<TokenName("b", <<LitX>>)>>)}

\* the expressions of the rule b<p>
BBodies ==
  {TokenName("p", none),
   TokenGroup("choice", <<TokenName("p", none),
                          TokenGroup("seq", <<TokenName("p", none),
                                              TokenName("b", <<TokenName("p", none)>>)>>)>>),
   TokenGroup("choice", <<LitX, TokenGroup("seq", <<TokenName("p", none),
                                                    TokenName("b", <<LitY>>)>>)>>),
   TokenGroup("choice", <<TokenGroup("seq", <<LitX, TokenName("b", <<LitY>>)>>),
                          TokenGroup("seq", <<TokenName("b", <<LitX>>), LitX>>)>>),
   TokenGroup("seq", <<TokenName("p", none), TokenName("a", none)>>),
   TokenGroup("choice", <<TokenName("p", none),
                          TokenGroup("seq", <<TokenName("a", none), TokenName("p", none)>>)>>),
   TokenGroup("choice", <<TokenName("p", none),
                          TokenGroup("seq", <<TokenName("b", <<TokenName("p", none)>>), LitX>>)>>)}

InitTokenSet ==
  /\ run = "tokenSet"
  /\ \E a \in ABodies : \E b \in BBodies :
       tokenRules = <<[name |-> "a", params |-> none, expr |-> a],
                      [name |-> "b", params |-> <<"p">>, expr |-> b]>>
  /\ tokenSet = none
  /\ IdleAdd /\ IdleLR /\ IdleParse /\ IdleFirst /\ IdleSimplify /\ IdleTokens
  /\ IdlePrec /\ IdleSpecialize /\ IdleCharSet /\ IdleData /\ IdleGoto
  /\ grammar = 1

\* the call getToken(a) for the token a the grammar uses
GetToken ==
  /\ run = "tokenSet" /\ tokenSet = none
  /\ tokenSet' = getToken(tokenRules, TokenName("a", none))
  /\ UNCHANGED <<run, addVars, lrVars, parseVars, firstVars, simplifyVars, tokenVars,
                 precVars, specializeVars, charSetVars, dataVars, gotoVars, tokenRules>>

NextTokenSet == GetToken

SpecTokenSet == InitTokenSet /\ [][NextTokenSet]_vars

(***************************************************************************)
(* What the properties below speak of.                                     *)
(***************************************************************************)
\* the actions a state holds for a terminal, in order
EntriesOn(st, term) == SelectSeq(st.terminals, LAMBDA a : a.term = term)

IndexOn(st, term) == {i \in 1..Len(st.terminals) : st.terminals[i].term = term}

HasDuplicate(st) ==
  \E i, j \in 1..Len(st.terminals) : i < j /\ st.terminals[i].term = st.terminals[j].term

\* the entries of the list prec whose group occurs in the list prev
SharedIn(prev, prec) ==
  {k \in 1..Len(prec) : \E j \in 1..Len(prev) : prev[j].group = prec[k].group}

FirstOf(set) == CHOOSE k \in set : \A j \in set : k <= j

\* the entry of prev that stands for the group of p (the first of the group)
EntryFor(prev, p) == prev[FirstOf({j \in 1..Len(prev) : prev[j].group = p.group})]

\* an addAction call has been made
Called == run = "addAction" /\ last.result # ""

\* the call met exactly one action for its terminal, and a different one
MetOne ==
  /\ Called
  /\ Cardinality(IndexOn(last.before, last.value.term)) = 1
  /\ ~ActionEq(last.before.terminals[FirstOf(IndexOn(last.before, last.value.term))],
               last.value)

MetIndex == FirstOf(IndexOn(last.before, last.value.term))

Existing == last.before.terminals[MetIndex]

ExistingPrec == last.before.terminalPrec[MetIndex]

\* the first entry of the new list whose group the existing list has too,
\* and the existing entry of that group
NewEntry == last.prec[FirstOf(SharedIn(ExistingPrec, last.prec))]

OldEntry == EntryFor(ExistingPrec, NewEntry)

MetShared == MetOne /\ SharedIn(ExistingPrec, last.prec) # {}

TheGrammar == Grammars[grammar]

(***************************************************************************)
(* C1.  A grammar on which buildFullAutomaton completes: the automaton     *)
(* returned by collapseAutomaton, run as an LR parser from state 0,        *)
(* accepts exactly the inputs (up to MaxWord terminals) that the full      *)
(* LR(1) automaton accepts.                                                *)
(***************************************************************************)
C1_SameLanguage ==
  (run = "automaton" /\ phase = "collapsed") =>
    (Accepts(TheGrammar, full, liveFull) <=> Accepts(TheGrammar, collapsed, liveCollapsed))

(***************************************************************************)
(* C2.  In every state of the full and of the collapsed automaton, and     *)
(* after any sequence of addAction calls on a state: two entries of        *)
(* terminals with the same terminal only if ambiguous is true.             *)
(***************************************************************************)
C2_DuplicateOnlyIfAmbiguous ==
  /\ HasDuplicate(state) => state.ambiguous
  /\ \A i \in 1..Len(full) : HasDuplicate(full[i]) => full[i].ambiguous
  /\ \A i \in 1..Len(collapsed) : HasDuplicate(collapsed[i]) => collapsed[i].ambiguous

C2_Witness ==
  /\ Called /\ calls = 3
  /\ Len(EntriesOn(state, "t")) = 3 /\ state.ambiguous

(***************************************************************************)
(* C3.  As claimed: when the new action meets a different action for its   *)
(* terminal and the two precedence lists share a group with different      *)
(* levels, the action of the higher level is the one that remains.         *)
(***************************************************************************)
DecidedByLevel ==
  /\ MetShared
  /\ NewEntry.precedence >= 0
  /\ NewEntry.precedence # OldEntry.precedence

C3_HigherLevelRemains ==
  DecidedByLevel =>
    EntriesOn(state, last.value.term) =
      IF NewEntry.precedence > OldEntry.precedence THEN <<last.value>> ELSE <<Existing>>

(***************************************************************************)
(* C3, amended.  When the new action meets exactly one action for its      *)
(* terminal, a different one, and the first entry of the new list whose    *)
(* group the existing list has too has a level that is not negative and    *)
(* differs from the existing one of that group, the action of the LOWER    *)
(* level is the one that remains for the terminal.                         *)
(***************************************************************************)
C3_LowerLevelRemains ==
  DecidedByLevel =>
    EntriesOn(state, last.value.term) =
      IF NewEntry.precedence < OldEntry.precedence THEN <<last.value>> ELSE <<Existing>>

C3_Witness ==
  /\ DecidedByLevel
  /\ NewEntry.precedence < OldEntry.precedence
  /\ EntriesOn(state, last.value.term) = <<last.value>>
  /\ EntriesOn(last.before, last.value.term) = <<Existing>>

(***************************************************************************)
(* C4.  As claimed: a Shift and a Reduce for one terminal meet with equal  *)
(* levels in a shared group; associativity left leaves only the Reduce,    *)
(* right only the Shift, in either order of the two calls.                 *)
(***************************************************************************)
\* the entries of the new list that carry an associativity
Associative == {k \in SharedIn(ExistingPrec, last.prec) : last.prec[k].associativity # "null"}

\* every shared group has the same level, not negative, in both lists, and
\* the first shared entry with an associativity has the same one in both
Tie ==
  /\ MetShared
  /\ isShift(Existing) # isShift(last.value)
  /\ \A k \in SharedIn(ExistingPrec, last.prec) :
       /\ last.prec[k].precedence >= 0
       /\ last.prec[k].precedence = EntryFor(ExistingPrec, last.prec[k]).precedence
  /\ Associative # {}
  /\ last.prec[FirstOf(Associative)].associativity =
       EntryFor(ExistingPrec, last.prec[FirstOf(Associative)]).associativity

TieAssociativity == last.prec[FirstOf(Associative)].associativity

TheShift == IF isShift(Existing) THEN Existing ELSE last.value

TheReduce == IF isShift(Existing) THEN last.value ELSE Existing

C4_AssociativityEitherOrder ==
  Tie =>
    EntriesOn(state, last.value.term) =
      IF TieAssociativity = "left" THEN <<TheReduce>> ELSE <<TheShift>>

(***************************************************************************)
(* C4, amended.  When the Reduce is added to a state whose action for the  *)
(* terminal is the Shift (the order of buildFullAutomaton), left leaves    *)
(* only the Reduce and right only the Shift.  When the Shift is added to a *)
(* state whose action is the Reduce (an order mergeState can produce),     *)
(* associativity is not consulted: the call ends in an unresolved conflict *)
(* (false, or a throw with a Pos) and the Reduce stays alone.              *)
(***************************************************************************)
C4_AssociativityShiftFirst ==
  Tie =>
    IF isShift(Existing)
    THEN /\ last.result = "true"
         /\ EntriesOn(state, last.value.term) =
              IF TieAssociativity = "left" THEN <<TheReduce>> ELSE <<TheShift>>
    ELSE /\ last.result = (IF last.pos = NoPos THEN "false" ELSE "throw")
         /\ EntriesOn(state, last.value.term) = <<TheReduce>>

C4_Witness ==
  /\ Tie /\ ~isShift(Existing) /\ TieAssociativity = "right"
  /\ last.result = "false"
  /\ EntriesOn(state, last.value.term) = <<TheReduce>>

(***************************************************************************)
(* C5.  As claimed: a new action whose precedence entry matching a group   *)
(* of the existing action has level < 0 is discarded; the call reports     *)
(* success and leaves terminals and terminalPrec as they were.             *)
(***************************************************************************)
\* entry i of the state before the call is a different action for the
\* terminal, and the first entry of the new list that shares a group with
\* it has a negative level
AcceptedAt(i) ==
  /\ i \in IndexOn(last.before, last.value.term)
  /\ ~ActionEq(last.before.terminals[i], last.value)
  /\ SharedIn(last.before.terminalPrec[i], last.prec) # {}
  /\ last.prec[FirstOf(SharedIn(last.before.terminalPrec[i], last.prec))].precedence < 0

C5_NewActionDiscarded ==
  (Called /\ \E i \in 1..Len(last.before.terminals) : AcceptedAt(i)) =>
    /\ last.result = "true"
    /\ state.terminals = last.before.terminals
    /\ state.terminalPrec = last.before.terminalPrec

(***************************************************************************)
(* C5, amended.  Such a conflict is accepted and both actions are kept:    *)
(* the call never removes the existing action and leaves ambiguous set,    *)
(* and when that action is the only one for the terminal the call reports  *)
(* success with the new action and its precedence appended to terminals    *)
(* and terminalPrec.                                                       *)
(***************************************************************************)
C5_BothActionsKept ==
  Called =>
    \A i \in 1..Len(last.before.terminals) :
      AcceptedAt(i) =>
        /\ state.ambiguous
        /\ \E j \in 1..Len(state.terminals) :
             /\ state.terminals[j] = last.before.terminals[i]
             /\ state.terminalPrec[j] = last.before.terminalPrec[i]
        /\ IndexOn(last.before, last.value.term) = {i} =>
             /\ last.result = "true"
             /\ state.terminals = Append(last.before.terminals, last.value)
             /\ state.terminalPrec = Append(last.before.terminalPrec, last.prec)

C5_Witness ==
  /\ MetOne /\ AcceptedAt(MetIndex)
  /\ EntriesOn(state, last.value.term) = <<Existing, last.value>>
  /\ isShift(Existing) /\ ~isShift(last.value)

(***************************************************************************)
(* C6.  When the first action addAction finds for the terminal is a        *)
(* different one and no group of the new precedence list occurs in its     *)
(* list, the call throws a "shift/reduce conflict" or "reduce/reduce       *)
(* conflict" Error naming the item and the terminal if a Pos was passed,   *)
(* and returns false otherwise, without adding the new action.  So no      *)
(* state, in particular none of a completed buildFullAutomaton, holds two  *)
(* actions on one terminal whose precedence lists share no group.          *)
(***************************************************************************)
MetUnrelated ==
  /\ Called
  /\ IndexOn(last.before, last.value.term) # {}
  /\ ~ActionEq(Existing, last.value)
  /\ SharedIn(ExistingPrec, last.prec) = {}

\* any two actions a state holds on one terminal share a precedence group
Related(st) ==
  \A i, j \in 1..Len(st.terminals) :
    (i < j /\ st.terminals[i].term = st.terminals[j].term) =>
      SharedIn(st.terminalPrec[i], st.terminalPrec[j]) # {}

C6_UnrelatedConflictReported ==
  /\ MetUnrelated =>
       /\ last.result = (IF last.pos = NoPos THEN "false" ELSE "throw")
       /\ state.terminals = last.before.terminals
       /\ state.terminalPrec = last.before.terminalPrec
       /\ last.pos # NoPos =>
            last.error = [kind |-> (IF isShift(Existing) THEN "shift/reduce conflict"
                                    ELSE "reduce/reduce conflict"),
                          pos |-> last.pos, term |-> last.value.term]
  /\ Related(state)
  /\ \A i \in 1..Len(full) : Related(full[i])
  /\ phase = "raised" =>
       /\ raised.kind \in {"shift/reduce conflict", "reduce/reduce conflict"}
       /\ raised.pos # NoPos /\ raised.term = raised.pos.ahead

C6_Witness ==
  /\ MetUnrelated /\ last.result = "throw"
  /\ last.error.kind = "reduce/reduce conflict"
  /\ Len(last.before.terminals) = 2

(***************************************************************************)
(* C9.  As claimed: for a fixed state with an action on a terminal, if     *)
(* adding a new action whose precedence has level L in a shared group ends *)
(* without an unresolved conflict, the same call with any higher level     *)
(* does too, and the only existing action it removes has a lower level.    *)
(***************************************************************************)
\* the call had a one-entry precedence list in a group of the one action
\* the state held for the terminal
OneLevelCall == MetShared /\ Len(last.prec) = 1

\* the same call with the level of the new precedence changed
Again(level) ==
  addAction(last.before, last.value, <<[last.prec[1] EXCEPT !.precedence = level]>>, last.pos)

RemovedBy(r) == ~includes(r.state.terminals, Existing)

C9_RaisingNeverConflicts ==
  (OneLevelCall /\ last.result = "true") =>
    \A level \in Levels :
      level > last.prec[1].precedence =>
        /\ Again(level).result = "true"
        /\ RemovedBy(Again(level)) => OldEntry.precedence < level

(***************************************************************************)
(* C9, amended.  If the call at level L ends without an unresolved         *)
(* conflict, the same call with any higher level other than the level of   *)
(* the existing action does too (at exactly that level the two tie), and   *)
(* it removes the existing action only if that action's level is higher    *)
(* than the new one.                                                       *)
(***************************************************************************)
C9_RaisingPastExisting ==
  (OneLevelCall /\ last.result = "true") =>
    \A level \in Levels :
      (level > last.prec[1].precedence /\ level # OldEntry.precedence) =>
        /\ Again(level).result = "true"
        /\ RemovedBy(Again(level)) => OldEntry.precedence > level

C9_Witness ==
  /\ OneLevelCall /\ last.result = "true"
  /\ last.prec[1].precedence = 1 /\ OldEntry.precedence = 2
  /\ last.prec[1].associativity = "null"
  /\ Again(2).result = "false"

(***************************************************************************)
(* C7.  For every rule list and every non-terminal N, the table returned   *)
(* by computeFirst holds terminal t in FIRST(N) for every derivation of N  *)
(* that begins with t, and holds the epsilon marker null in FIRST(N)       *)
(* exactly when N derives the empty string.                                *)
(***************************************************************************)
\* the non-terminals that derive the empty string: the least set holding
\* every non-terminal with a rule all of whose parts are in the set
RECURSIVE NullableFrom(_, _)
NullableFrom(G, known) ==
  LET more == known \cup {G.rules[i].name : i \in
                 {i \in 1..Len(G.rules) : Range(G.rules[i].parts) \subseteq known}}
  IN IF more = known THEN known ELSE NullableFrom(G, more)

Nullable(G) == NullableFrom(G, {})

C7_FirstHoldsEveryBeginning ==
  firstPhase = "returned" =>
    /\ \A name \in Range(firstInput.nonTerminals) :
         includes(firstTable[name], null) <=> name \in Nullable(firstInput)
    /\ (origin # "" /\ form = none) => includes(firstTable[origin], null)
    /\ (origin # "" /\ form # none /\ terminal(firstInput, form[1])) =>
         includes(firstTable[origin], form[1])

\* a derivation that reaches its first terminal past a non-terminal that
\* derives the empty string
C7_Witness ==
  /\ firstPhase = "returned" /\ origin = "A"
  /\ form = <<"a">>
  /\ "B" \in Nullable(firstInput) /\ ~("A" \in Nullable(firstInput))
  /\ \A i \in 1..Len(firstInput.rules) :
       firstInput.rules[i].name = "A" => firstInput.rules[i].parts = <<"B", "a">>
  /\ firstTable["A"] = <<"a">>

(***************************************************************************)
(* C8.  For every rule list, the sentences of up to MaxSentence terminals  *)
(* derivable from the top term under the rules returned by simplifyRules   *)
(* are those derivable under the rules it was given.                       *)
(***************************************************************************)
\* the sentences of parts from index k on, table giving those of the names
RECURSIVE SentencesOfParts(_, _, _)
SentencesOfParts(table, parts, k) ==
  IF k > Len(parts) THEN {none}
  ELSE LET heads == IF parts[k] \in SimplifyTerminals THEN {<<parts[k]>>}
                    ELSE IF parts[k] \in DOMAIN table THEN table[parts[k]] ELSE {}
       IN {h \o t : <<h, t>> \in
             {<<h, t>> \in heads \X SentencesOfParts(table, parts, k + 1) :
                Len(h) + Len(t) <= MaxSentence}}

RECURSIVE SentencesFrom(_, _)
SentencesFrom(rules, table) ==
  LET more == [n \in DOMAIN table |->
                 table[n] \cup UNION {SentencesOfParts(table, rules[i].parts, 1) :
                                        i \in {i \in 1..Len(rules) : rules[i].name = n}}]
  IN IF more = table THEN table ELSE SentencesFrom(rules, more)

Sentences(rules, top) ==
  SentencesFrom(rules, [n \in {rules[i].name : i \in 1..Len(rules)} \cup {top} |-> {}])[top]

C8_SameSentences ==
  simplifyPhase = "simplified" =>
    Sentences(simplified, "program") = Sentences(builtRules, "program")

(***************************************************************************)
(* C10.  After buildTokenGroups has returned without raising, no token     *)
(* group holds two tokens that form an unresolved conflict, whether the    *)
(* tokens come from a state's own actions, from its skip automaton or from *)
(* the origin of a specialized token.                                      *)
(***************************************************************************)
C10_NoConflictWithinGroup ==
  tokPhase = "returned" =>
    \A g \in 1..Len(tokGroups) : \A c \in 1..Len(tokConflicts) :
      ~(includes(tokGroups[g], tokConflicts[c].a) /\ includes(tokGroups[g], tokConflicts[c].b))

(***************************************************************************)
(* C11.  The number of token groups buildTokenGroups returns is minimal:   *)
(* the states that were given a group cannot be assigned to fewer groups   *)
(* such that the conflicting tokens of every state lie in its group and    *)
(* no group holds a token together with one of its conflict peers.         *)
(* C11_FirstFit is what the code keeps: a state is given a new group only  *)
(* when every existing group holds a conflict peer of one of the state's   *)
(* tokens, and joins the first group that holds none otherwise.            *)
(***************************************************************************)
\* the tokens a state can see: its actions and those of the start state of
\* its skip automaton, a specialized token standing for its origin
StateTokens(st) ==
  LET skip == skipStart(tokInput, st)
      all == st.actions \o (IF skip = none THEN none ELSE skip[1].actions)
  IN {IF tokInput.tokenOrigins[all[i]] = "" THEN all[i] ELSE tokInput.tokenOrigins[all[i]] :
        i \in {j \in 1..Len(all) : tokInput.tokenOrigins[all[j]] # "external"}}

ConflictPeers(t) ==
  {tokConflicts[c].b : c \in {k \in 1..Len(tokConflicts) : tokConflicts[k].a = t}}
    \cup {tokConflicts[c].a : c \in {k \in 1..Len(tokConflicts) : tokConflicts[k].b = t}}

ConflictingTokens(st) == {t \in StateTokens(st) : ConflictPeers(t) # {}}

\* the states that were given a group
Grouped == {i \in 1..Len(tokAssigned) : tokAssigned[i] >= 0}

ValidGrouping(f, k) ==
  \A g \in 1..k :
    LET held == UNION {ConflictingTokens(statesToCheck(tokInput)[i]) : i \in {j \in Grouped : f[j] = g}}
    IN \A t \in held : ConflictPeers(t) \cap held = {}

C11_FewestGroups ==
  tokPhase = "returned" =>
    \A k \in 0..(Len(tokGroups) - 1) : ~\E f \in [Grouped -> 1..k] : ValidGrouping(f, k)

\* the state the next call of checkState is given
NextChecked == statesToCheck(tokInput)[Len(tokAssigned) + 1]

Fits(g, st) ==
  \A t \in ConflictingTokens(st) : \A p \in ConflictPeers(t) : ~includes(tokGroups[g], p)

C11_FirstFit ==
  [][(tokAssigned' # tokAssigned /\ tokAssigned'[Len(tokAssigned')] >= 0) =>
       LET given == tokAssigned'[Len(tokAssigned')] + 1
       IN /\ \A g \in 1..Len(tokGroups) : g < given => ~Fits(g, NextChecked)
          /\ given <= Len(tokGroups) => Fits(given, NextChecked)
          /\ Len(tokGroups') = (IF given > Len(tokGroups) THEN given ELSE Len(tokGroups))]_vars

\* three groups were made where two would do
C11_Witness ==
  /\ tokPhase = "returned" /\ Len(tokGroups) = 3
  /\ \E f \in [Grouped -> 1..2] : ValidGrouping(f, 2)

(***************************************************************************)
(* C12.  When takePrecedences returns, `precedences` holds every built     *)
(* token named in a block of @precedence exactly once, and nothing else,   *)
(* each token after every token listed before it in any block; it raises   *)
(* 'Cyclic token precedence relation' exactly when the relation "listed    *)
(* before in some block" has a cycle.                                      *)
(***************************************************************************)
\* x is listed before y in some block
ListedBefore ==
  {<<precAst[k][i], precAst[k][j]>> :
     <<k, i, j>> \in {t \in (1..Len(precAst)) \X (1..MaxPrecItems) \X (1..MaxPrecItems) :
                       /\ t[2] < t[3] /\ t[3] <= Len(precAst[t[1]])
                       /\ precAst[t[1]][t[2]] \in Built /\ precAst[t[1]][t[3]] \in Built}}

RECURSIVE TransitiveClosure(_)
TransitiveClosure(R) ==
  LET More == R \cup {<<p[1], q[2]>> : <<p, q>> \in {pq \in R \X R : pq[1][2] = pq[2][1]}}
  IN IF More = R THEN R ELSE TransitiveClosure(More)

Cyclic == \E x \in Built : <<x, x>> \in TransitiveClosure(ListedBefore)

Named == {precAst[k][i] : <<k, i>> \in {t \in (1..Len(precAst)) \X (1..MaxPrecItems) :
                                           t[2] <= Len(precAst[t[1]])}} \cap Built

IndexIn(list, x) == CHOOSE i \in 1..Len(list) : list[i] = x

C12_PrecedencesSorted ==
  /\ precPhase \in {"ordered", "raised"} => (precPhase = "raised" <=> Cyclic)
  /\ precPhase = "ordered" =>
       /\ \A x \in Named : Cardinality({i \in 1..Len(precOrdered) : precOrdered[i] = x}) = 1
       /\ \A i \in 1..Len(precOrdered) : precOrdered[i] \in Named
       /\ \A p \in ListedBefore : IndexIn(precOrdered, p[1]) < IndexIn(precOrdered, p[2])

\* three tokens ordered by two blocks, one of which names an unknown token
C12_Witness ==
  /\ precPhase = "ordered" /\ Len(precOrdered) = 3 /\ Len(precAst) = 2
  /\ \E k \in 1..Len(precAst) : includes(precAst[k], "u")
  /\ \E x \in Built : \E y \in Built :
       <<x, y>> \in TransitiveClosure(ListedBefore) /\ <<x, y>> \notin ListedBefore

(***************************************************************************)
(* C13.  After any sequence of resolveSpecialization calls the table of a  *)
(* base terminal holds at most one entry per literal value; a call that    *)
(* names a value the table already holds returns the term recorded for it  *)
(* when its kind is the recorded one, and raises when the kind differs.    *)
(* C13_SharedUnlessTokensDiffer adds the case the code raises in as well:  *)
(* the call lists a recorded value after a first value that is new or is  *)
(* recorded with another term.                                             *)
(***************************************************************************)
OneEntryPerValue ==
  \A b \in DOMAIN specialized : \A i, j \in 1..Len(specialized[b]) :
    specialized[b][i].value = specialized[b][j].value => i = j

\* the entry the table held for the k-th value of the last call, when the
\* call was made
RecordedFor(k) ==
  LET table == specLast.before[specLast.base]
  IN SelectSeq(table, LAMBDA e : e.value = specLast.values[k])

LaterCall == specLast.base \in BaseTokens

KindDiffers ==
  \E k \in 1..Len(specLast.values) :
    RecordedFor(k) # none /\ RecordedFor(k)[1].type # specLast.type

\* a recorded value is listed after a first value that is new or has
\* another term: the first value decides the term of the whole call
TokensDiffer ==
  \E j \in 2..Len(specLast.values) :
    /\ RecordedFor(j) # none
    /\ RecordedFor(1) = none \/ RecordedFor(1)[1].term # RecordedFor(j)[1].term

ReturnsRecorded ==
  /\ specLast.raised = ""
  /\ \A k \in 1..Len(specLast.values) :
       RecordedFor(k) # none => specLast.token = <<RecordedFor(k)[1].term>>

C13_SharedTerm ==
  /\ OneEntryPerValue
  /\ LaterCall => (KindDiffers => specLast.raised # "")
  /\ LaterCall /\ ~KindDiffers => ReturnsRecorded

C13_SharedUnlessTokensDiffer ==
  /\ OneEntryPerValue
  /\ LaterCall => (KindDiffers \/ TokensDiffer <=> specLast.raised # "")
  /\ LaterCall /\ ~KindDiffers /\ ~TokensDiffer => ReturnsRecorded

\* a specialization recorded by an earlier call is named again, with the
\* same kind, and the recorded term comes back
C13_Witness ==
  /\ specCalls = 2 /\ LaterCall /\ specLast.raised = ""
  /\ \E k \in 1..Len(specLast.values) :
       RecordedFor(k) # none /\ specLast.token = <<RecordedFor(k)[1].term>>
  /\ \E k \in 1..Len(specLast.values) : RecordedFor(k) = none

(***************************************************************************)
(* C14.  Every rule the normalizer defines and every rule inlineRules or   *)
(* mergeRules rebuilds has one conflict record more than it has parts.     *)
(***************************************************************************)
C14_ConflictsLength ==
  /\ \A i \in 1..Len(builtRules) : Len(builtRules[i].conflicts) = Len(builtRules[i].parts) + 1
  /\ \A i \in 1..Len(simplified) : Len(simplified[i].conflicts) = Len(simplified[i].parts) + 1

\* a sequence with markers was normalized, a rule with a marker of its own
\* was inlined into it, and a repeat made its pair of rules
C14_Witness ==
  /\ run = "normalize" /\ simplifyPhase = "simplified"
  /\ \E i \in 1..Len(builtRules) :
       builtRules[i].name = "A" /\ \E k \in 1..Len(builtRules[i].conflicts) :
         builtRules[i].conflicts[k] # ConflictsNone
  /\ ~\E i \in 1..Len(simplified) : simplified[i].name = "A"
  /\ \E i \in 1..Len(simplified) :
       /\ simplified[i].name = "program" /\ Len(simplified[i].parts) = 3
       /\ \E k \in 1..4 : Cardinality(simplified[i].conflicts[k]) = 2
  /\ \E i \in 1..Len(simplified) : Len(simplified[i].conflicts) = 3 /\
       simplified[i].conflicts[3] = {<<"prec", "repeat">>}

(***************************************************************************)
(* C15.  The edges built for a character set accept exactly the UTF-16     *)
(* code-unit sequences that encode a non-surrogate code point of the set:  *)
(* a single unit for a code point below ASTRAL, a high and a low surrogate *)
(* through an intermediate state for one from ASTRAL on.                   *)
(***************************************************************************)
\* the states reached from the states `at` by reading `unit`
StepOn(at, unit) ==
  {e.to : e \in {d \in edges : d.from \in at /\ d.low <= unit /\ unit < d.hi}}

RECURSIVE ReadUnits(_, _, _)
ReadUnits(at, units, k) ==
  IF k > Len(units) THEN at ELSE ReadUnits(StepOn(at, units[k]), units, k + 1)

AcceptsUnits(units) == 1 \in ReadUnits({0}, units, 1)

InCharSet(code) ==
  (\E k \in 1..Len(charSet.ranges) :
     charSet.ranges[k][1] <= code /\ code < charSet.ranges[k][2]) # charSet.inverted

Surrogate(code) == GAP_START <= code /\ code < GAP_END

\* the code points next to the bounds of the ranges
SampleCodes == {c \in {b + d : b \in RangeBounds, d \in {-1, 0, 1}} : 0 <= c /\ c <= MAX_CODE}

SampleUnits == {c \in SampleCodes : c <= MAX_CHAR} \cup {fromCodePoint(c)[1] : c \in SampleCodes}
                 \cup {fromCodePoint(c)[Len(fromCodePoint(c))] : c \in SampleCodes}

\* the units encode a code point of the set that is no surrogate
EncodesMember(units) ==
  \E c \in SampleCodes : fromCodePoint(c) = units /\ ~Surrogate(c) /\ InCharSet(c)

C15_AcceptsExactlyTheRange ==
  setPhase = "ranges" /\ pendingRanges = none =>
    /\ \A u \in SampleUnits : AcceptsUnits(<<u>>) <=> EncodesMember(<<u>>)
    /\ \A u \in SampleUnits : \A v \in SampleUnits :
         AcceptsUnits(<<u, v>>) <=> EncodesMember(<<u, v>>)

(***************************************************************************)
(* C16.  collapseAutomaton terminates: every restart of its loop records   *)
(* a conflict pair that was not recorded before, the pairs are pairs of    *)
(* distinct states of the input, so the restarts are no more than the      *)
(* pairs; the automaton it returns has no more states than the input.      *)
(***************************************************************************)
\* the pairs of old states recorded in `conflicts`
PairsOf(conflicts) == {{conflicts[2 * k - 1], conflicts[2 * k]} : k \in 1..(Len(conflicts) \div 2)}

PassTaken == passes' = passes + 1

CoreOf(st) == {<<st.set[k].rule, st.set[k].pos>> : k \in 1..Len(st.set)}

C18_JoinedOnlyIfCompatible ==
  [][PassTaken =>
       \A i, j \in 1..Len(curMapping') :
         i # j /\ curMapping'[i] = curMapping'[j] =>
           /\ CoreOf(full[i]) = CoreOf(full[j])
           /\ {i - 1, j - 1} \notin PairsOf(curConflicts)]_vars

\* a pass after a restart: two states of one core are apart for a recorded
\* pair while another state of the core is joined to one of them
C18_Witness ==
  /\ passes = 2
  /\ \E i, j, k \in 1..Len(curMapping) :
       /\ CoreOf(full[i]) = CoreOf(full[j]) /\ CoreOf(full[i]) = CoreOf(full[k])
       /\ i # k /\ curMapping[i] = curMapping[k] /\ curMapping[i] # curMapping[j]
       /\ {i - 1, j - 1} \in PairsOf(curConflicts)
       /\ {i - 1, k - 1} \in PairsOf(curConflicts)

(***************************************************************************)
(* C19.  For every item [A -> alpha . B beta, a] of a set returned by      *)
(* closure with B a non-terminal, every rule B -> gamma and every terminal *)
(* b in FIRST(beta a), the set holds an item [B -> . gamma, b];            *)
(* Pos.termsAhead returns exactly FIRST(beta a), never the epsilon marker. *)
(***************************************************************************)
\* the terminals that begin a derivation of the parts from index k on, given
\* those of the non-terminals; those of `rest` when all these parts derive
\* the empty string
RECURSIVE BeginsOfParts(_, _, _, _, _)
BeginsOfParts(G, begins, parts, k, rest) ==
  IF k > Len(parts) THEN rest
  ELSE IF terminal(G, parts[k]) THEN {parts[k]}
  ELSE begins[parts[k]] \cup
         (IF parts[k] \in Nullable(G) THEN BeginsOfParts(G, begins, parts, k + 1, rest) ELSE {})

\* the least table of beginnings closed under the rules
RECURSIVE BeginsFrom(_, _)
BeginsFrom(G, begins) ==
  LET more == [name \in Range(G.nonTerminals) |->
                 UNION {BeginsOfParts(G, begins, G.rules[i].parts, 1, {}) :
                          i \in {i \in 1..Len(G.rules) : G.rules[i].name = name}}]
  IN IF more = begins THEN begins ELSE BeginsFrom(G, more)

Begins(G) == BeginsFrom(G, [name \in Range(G.nonTerminals) |-> {}])

\* FIRST(beta a) for the item p = [A -> alpha . B beta, a]
FirstAfter(G, p) == BeginsOfParts(G, Begins(G), G.rules[p.rule].parts, p.pos + 2, {p.ahead})

\* the sets returned by closure: the item sets of the states built
ClosureSets == {full[i].set : i \in 1..Len(full)}

C19_ClosureComplete ==
  \A set \in ClosureSets : \A i \in 1..Len(set) :
    LET p == set[i]
        ahead == termsAhead(TheGrammar, computeFirst(TheGrammar), p)
    IN PosNext(TheGrammar, p) # null =>
         /\ Range(ahead) = FirstAfter(TheGrammar, p)
         /\ ~includes(ahead, null)
         /\ ~terminal(TheGrammar, PosNext(TheGrammar, p)) =>
              \A r \in 1..Len(TheGrammar.rules) : \A b \in FirstAfter(TheGrammar, p) :
                TheGrammar.rules[r].name = PosNext(TheGrammar, p) =>
                  \E j \in 1..Len(set) :
                    set[j].rule = r /\ set[j].pos = 0 /\ set[j].ahead = b

\* an item whose beta derives the empty string, so that FIRST(beta a) holds
\* a beginning of beta and the item's own lookahead
C19_Witness ==
  \E set \in ClosureSets : \E i \in 1..Len(set) :
    LET p == set[i]
        parts == TheGrammar.rules[p.rule].parts
    IN /\ p.pos + 2 = Len(parts) /\ ~terminal(TheGrammar, parts[p.pos + 1])
       /\ parts[p.pos + 2] \in Nullable(TheGrammar)
       /\ Cardinality(FirstAfter(TheGrammar, p)) = 2
       /\ p.ahead \in FirstAfter(TheGrammar, p)

(***************************************************************************)
(* C20.  closure keeps items apart by rule, dot, lookahead and precStack:  *)
(* when a rule at dot 0 with one lookahead is reached from two items whose *)
(* positions carry different precedence, the returned set holds an item    *)
(* for each precStack; the returned set is sorted by Pos.cmp.              *)
(***************************************************************************)
\* the items that the item p of a closure set asks for
AskedBy(G, p) ==
  {Pos(r, 0, b, precAt(G.rules[p.rule], p.pos)) :
     r \in {r \in 1..Len(G.rules) : G.rules[r].name = PosNext(G, p)},
     b \in Range(termsAhead(G, computeFirst(G), p))}

SortedByCmp(G, set) ==
  \A i, j \in 1..Len(set) : i < j => PosCmp(G, set[i], set[j]) < 0

C20_OneItemPerPrecStack ==
  \A set \in ClosureSets :
    /\ SortedByCmp(TheGrammar, set)
    /\ \A i \in 1..Len(set) : AskedBy(TheGrammar, set[i]) \subseteq Range(set)

C20_Sorted == \A set \in ClosureSets : SortedByCmp(TheGrammar, set)

(***************************************************************************)
(* C21.  The merging pass runs to a fixpoint: mergeRules applied to the    *)
(* rule list that mergeRules (and so simplifyRules) returned returns it    *)
(* unchanged, no two groups of it being left to merge.                     *)
(***************************************************************************)
C21_MergeFixpoint ==
  simplifyPhase = "simplified" => mergeRules(simplified) = simplified

(***************************************************************************)
(* C22.  Two normalizeRepeat calls with the same kind and structurally     *)
(* equal inner expressions return the same term, and the later one makes   *)
(* no term and defines no rule, also when it is made while the first is    *)
(* still normalizing its inner expression: after the constructor `built`   *)
(* holds one term for each repeat, that term has the rules of one call,    *)
(* and a further call for the repeat returns it and changes nothing.       *)
(***************************************************************************)
\* the Builder after its constructor has normalized the top expression
Normalized ==
  normalizeExpr(astRules, [rules |-> none, built |-> {}, nonTerminals |-> {"program"}],
                topExpr).ctx

Repeats(ctx) == {b \in ctx.built : b.id \in {"*", "+"}}

RulesNamed(rules, name) == {i \in 1..Len(rules) : rules[i].name = name}

C22_RepeatBuiltOnce ==
  (run = "normalize" /\ simplifyPhase # "ast") =>
    /\ \A b, c \in Normalized.built : (b.id = c.id /\ b.args = c.args) => b.term = c.term
    /\ \A b \in Repeats(Normalized) :
         /\ normalizeRepeat(astRules, Normalized, RepeatExpression(b.id, b.args[1]))
              = [choices |-> <<PartsOf(b.term)>>, ctx |-> Normalized]
         /\ b.id = "*" => Cardinality(RulesNamed(builtRules, b.term)) = 2
         /\ b.term \o "-1" \notin Normalized.nonTerminals

\* the repeat A+ is met again, in the rule A, while the call for the A+ of
\* the top expression is normalizing A
C22_Witness ==
  /\ run = "normalize" /\ simplifyPhase = "defined"
  /\ \E k \in 1..Len(topExpr.exprs) :
       topExpr.exprs[k] = RepeatExpression("+", NameExpression("A"))
  /\ astRules["A"].kind = "seq" /\ Len(astRules["A"].exprs) = 2
  /\ astRules["A"].exprs[2] = RepeatExpression("+", NameExpression("A"))
  /\ Cardinality(Repeats(Normalized)) = 1
  /\ Cardinality(RulesNamed(builtRules, "A+")) = 2

(***************************************************************************)
(* C23.  Each storeArray call returns an offset at which the data holds    *)
(* the array given, then and after every later call; a call appends only   *)
(* when the array does not occur in the data as a contiguous sub-array,    *)
(* and no call changes an element stored before it.                        *)
(***************************************************************************)
OccursIn(array, data) ==
  \E o \in 0..(Len(data) - Len(array)) : SubSeq(data, o + 1, o + Len(array)) = array

StandsAt(array, data, o) ==
  o >= 0 /\ o + Len(array) <= Len(data) /\ SubSeq(data, o + 1, o + Len(array)) = array

C23_StoredArraysStay ==
  [][run = "data" =>
       /\ \A k \in 1..Len(dbStored') : StandsAt(dbStored'[k].array, dbData', dbStored'[k].pos)
       /\ Len(dbData') >= Len(dbData) /\ SubSeq(dbData', 1, Len(dbData)) = dbData
       /\ dbData' # dbData => ~OccursIn(dbStored'[Len(dbStored')].array, dbData)]_vars

\* 0 1 stored, then 1 found inside it, then 1 1 appended behind it
C23_Witness ==
  /\ run = "data" /\ Len(dbStored) = 3
  /\ dbStored[2].array = <<1>> /\ dbStored[2].pos = 1
  /\ dbStored[3].pos = 2 /\ Len(dbData) = 4

(***************************************************************************)
(* C24.  The goto table decodes back to the gotos of the automaton: its    *)
(* first element is maxTerm + 1, and for each term that has gotos the      *)
(* records at the term's index list, one record per target state, exactly  *)
(* the start states with a goto on the term to the target, each record     *)
(* headed by the count shifted left once with the first bit set on the     *)
(* last record of the term and on no other.                                *)
(***************************************************************************)
\* the records read from the 0-based offset pos on, up to a record whose
\* head has the first bit set or the end of the table
RECURSIVE RecordsAt(_, _)
RecordsAt(table, pos) ==
  IF pos + 2 > Len(table) \/ pos + 2 + (table[pos + 1] \div 2) > Len(table) THEN none
  ELSE LET count == table[pos + 1] \div 2
           record == [count |-> count, last |-> table[pos + 1] % 2 = 1,
                      target |-> table[pos + 2],
                      starts |-> SubSeq(table, pos + 3, pos + 2 + count)]
       IN IF record.last THEN <<record>>
          ELSE <<record>> \o RecordsAt(table, pos + 2 + count)

GotoTermIds(states) ==
  {t \in Range(GotoTerms) : \E i \in 1..Len(states) : \E k \in 1..Len(states[i].goto) :
                               states[i].goto[k].term = t}

StartsOf(states, term, target) ==
  {states[i].id : i \in {j \in 1..Len(states) :
                           \E k \in 1..Len(states[j].goto) :
                             states[j].goto[k] = [term |-> term, target |-> target]}}

C24_GotoTableDecodes ==
  (run = "goto" /\ gotoTable # none) =>
    /\ gotoTable[1] = 1 + LeastOf({t \in GotoTermIds(gotoStates) :
                                    \A u \in GotoTermIds(gotoStates) : u <= t}, 0)
    /\ \A term \in GotoTermIds(gotoStates) :
         LET records == RecordsAt(gotoTable, gotoTable[term + 2])
             targets == {t \in 0..(Len(gotoStates) - 1) : StartsOf(gotoStates, term, t) # {}}
         IN /\ Len(records) = Cardinality(targets)
            /\ {records[k].target : k \in 1..Len(records)} = targets
            /\ \A k \in 1..Len(records) :
                 /\ Range(records[k].starts) = StartsOf(gotoStates, term, records[k].target)
                 /\ records[k].count = Cardinality(StartsOf(gotoStates, term, records[k].target))
                 /\ records[k].last <=> k = Len(records)

\* both terms have gotos, term 1 to two targets, and the record of term 3
\* was found inside the records of term 1
C24_Witness ==
  /\ run = "goto" /\ gotoTable # none
  /\ GotoTermIds(gotoStates) = {1, 3}
  /\ Len(RecordsAt(gotoTable, gotoTable[3])) = 2
  /\ gotoTable[5] > gotoTable[3]

(***************************************************************************)
(* C25.  For every state with an item whose dot is past position 0, the    *)
(* item finishState takes the forced reduce from has the smallest          *)
(* remaining suffix (rule length minus dot) among those items, and the     *)
(* longest rule among the items that share that suffix.                    *)
(***************************************************************************)
Remaining(G, p) == Len(G.rules[p.rule].parts) - p.pos

C25_ForcedReduceNearestEnd ==
  phase = "collapsed" =>
    \A i \in 1..Len(collapsed) :
      LET set == collapsed[i].set
          chosen == defaultPos(TheGrammar, set)
      IN (\E k \in 1..Len(set) : set[k].pos > 0) =>
           \A k \in 1..Len(set) :
             set[k].pos > 0 =>
               /\ Remaining(TheGrammar, chosen) <= Remaining(TheGrammar, set[k])
               /\ Remaining(TheGrammar, chosen) = Remaining(TheGrammar, set[k]) =>
                    Len(TheGrammar.rules[chosen.rule].parts)
                      >= Len(TheGrammar.rules[set[k].rule].parts)

(***************************************************************************)
(* C26.  While a token rule is being built, a reference to a rule with the *)
(* name and structurally equal arguments of a rule on the `building` stack *)
(* is accepted only when it stands where the token text of that rule ends  *)
(* (its accept target is that build's target); it then is an epsilon edge  *)
(* back to the start of that build and starts no build, so that the        *)
(* automaton accepts what the rules derive.  Any other such reference      *)
(* raises 'Invalid (non-tail) recursion in token rules' with a chain of    *)
(* rule names from the rule referred to up to the rule holding the         *)
(* reference.                                                              *)
(***************************************************************************)
MaxTok == 3

\* the first reference, in the order of the build, to a rule under way with
\* equal arguments from a place that is not at the end of that rule; stack
\* holds the rules under way and `tails` the indices of those at whose end
\* the expression stands
RECURSIVE FirstNonTail(_, _, _, _)
FirstNonTail(rules, expr, stack, tails) ==
  LET under == {i \in 1..Len(stack) : stack[i].name = expr.name /\ stack[i].args = expr.args}
      rule == rules[CHOOSE i \in 1..Len(rules) : rules[i].name = expr.name]
      RECURSIVE first(_)
      first(k) ==
        IF k > Len(expr.exprs) THEN none
        ELSE LET here == FirstNonTail(rules, expr.exprs[k], stack,
                                      IF expr.kind = "seq" /\ k < Len(expr.exprs)
                                      THEN {} ELSE tails)
             IN IF here # none THEN here ELSE first(k + 1)
  IN IF expr.kind = "name"
     THEN IF under # {}
          THEN IF under \subseteq tails THEN none
               ELSE <<[name |-> expr.name, inside |-> stack[Len(stack)].name]>>
          ELSE FirstNonTail(rules, substituteArgs(rule.expr, expr.args, rule.params),
                            Append(stack, [name |-> expr.name, args |-> expr.args]),
                            tails \cup {Len(stack) + 1})
     ELSE IF expr.kind \in {"*", "+"} THEN FirstNonTail(rules, expr.exprs[1], stack, {})
     ELSE IF expr.kind \in {"choice", "seq", "?"} THEN first(1)
     ELSE none

TokenWords == UNION {[1..n -> {120, 121}] : n \in 0..MaxTok}

Cat(A, B) ==
  {w \in TokenWords : \E k \in 0..Len(w) : SubSeq(w, 1, k) \in A /\ SubSeq(w, k + 1, Len(w)) \in B}

\* the words of TokenWords the expression derives with rule references
\* nested at most `depth` deep
RECURSIVE Derives(_, _, _)
Derives(rules, expr, depth) ==
  LET rule == rules[CHOOSE i \in 1..Len(rules) : rules[i].name = expr.name]
      inner == Derives(rules, expr.exprs[1], depth)
      RECURSIVE star(_, _)
      star(A, n) == IF n = 0 THEN {none} ELSE {none} \cup Cat(A, star(A, n - 1))
      RECURSIVE seq(_)
      seq(k) == IF k > Len(expr.exprs) THEN {none}
                ELSE Cat(Derives(rules, expr.exprs[k], depth), seq(k + 1))
  IN IF expr.kind = "name"
     THEN IF depth = 0 THEN {}
          ELSE Derives(rules, substituteArgs(rule.expr, expr.args, rule.params), depth - 1)
     ELSE IF expr.kind = "literal" THEN {expr.value}
     ELSE IF expr.kind = "seq" THEN seq(1)
     ELSE IF expr.kind = "choice"
     THEN UNION {Derives(rules, expr.exprs[k], depth) : k \in 1..Len(expr.exprs)}
     ELSE IF expr.kind = "*" THEN star(inner, MaxTok)
     ELSE IF expr.kind = "+" THEN Cat(inner, star(inner, MaxTok))
     ELSE {none} \cup inner

\* the states reached from a set of states over null edges
RECURSIVE NullClosure(_, _)
NullClosure(set, states) ==
  LET more == states \cup {e.to : e \in {d \in set : d.from \in states /\ d.low = -1}}
  IN IF more = states THEN states ELSE NullClosure(set, more)

RECURSIVE StatesAfter(_, _, _)
StatesAfter(set, states, w) ==
  IF w = none THEN NullClosure(set, states)
  ELSE StatesAfter(set,
                   {e.to : e \in {d \in set : d.from \in NullClosure(set, states)
                                                 /\ d.low <= w[1] /\ w[1] < d.hi}},
                   Tail(w))

\* the words the automaton takes from the start state to the token's state
Accepted(tokens) == {w \in TokenWords : 1 \in StatesAfter(tokens.edges, {0}, w)}

C26_TailRecursionOnly ==
  (run = "tokenSet" /\ tokenSet # none) =>
    LET bad == FirstNonTail(tokenRules, tokenRules[1].expr,
                            <<[name |-> "a", args |-> none]>>, {1})
    IN /\ tokenSet.error # NoTokenError <=> bad # none
       /\ bad # none =>
            /\ tokenSet.error.message = "Invalid (non-tail) recursion in token rules"
            /\ tokenSet.error.names # none
            /\ tokenSet.error.names[1] = bad[1].name
            /\ tokenSet.error.names[Len(tokenSet.error.names)] = bad[1].inside
       /\ bad = none =>
            /\ Accepted(tokenSet) = Derives(tokenRules, TokenName("a", none), 3 * (MaxTok + 1))
            /\ tokenSet.building = none

\* b<"x"> refers to b<"x"> at its end: an epsilon edge leads back to the
\* start state of its build, and the token takes x x x
C26_Witness ==
  /\ run = "tokenSet" /\ tokenSet # none /\ tokenSet.error = NoTokenError
  /\ tokenRules[1].expr = TokenGroup("seq", <<LitX, TokenName("b", <<LitX>>)>>)
  /\ \E e \in tokenSet.edges : e.low = -1 /\ e.to < e.from /\ e.to > 1
  /\ <<120, 120, 120>> \in Accepted(tokenSet)

(***************************************************************************)
(* C27.  In the automaton collapseAutomaton returns, for every old state s *)
(* and every goto of s on a non-terminal N to an old state t, the new      *)
(* state of s has exactly one goto on N and it leads to the new state of   *)
(* t: old states whose gotos on N lead to different new states are not     *)
(* merged.                                                                 *)
(***************************************************************************)
C27_GotosSurviveCollapse ==
  phase = "collapsed" =>
    \A i \in 1..Len(full) : \A k \in 1..Len(full[i].goto) :
      LET new == collapsed[curMapping[i] + 1]
          on == {j \in 1..Len(new.goto) : new.goto[j].term = full[i].goto[k].term}
      IN /\ Cardinality(on) = 1
         /\ \A j \in on : new.goto[j].target = curMapping[full[i].goto[k].target + 1]

(***************************************************************************)
(* C28.  Inlining leaves no reference without rules: every non-terminal    *)
(* that occurs in the parts of a rule inlineRules returns, and had a rule  *)
(* in the list given, has a rule in the list returned, also when a rule    *)
(* chosen for inlining refers to a rule chosen later in the same pass.     *)
(***************************************************************************)
NamesOf(rules) == {rules[k].name : k \in 1..Len(rules)}

C28_InlineKeepsReferredRules ==
  (run = "simplify" /\ simplifyPhase # "ast") =>
    LET inlined == inlineRules(builtRules, preserved(mainSkip))
    IN \A k \in 1..Len(inlined) : \A j \in 1..Len(inlined[k].parts) :
         inlined[k].parts[j] \in NamesOf(builtRules) => inlined[k].parts[j] \in NamesOf(inlined)

(***************************************************************************)
(* C29.  simplifyRules keeps the terms of its preserve list (the skip      *)
(* rules and top): each of them that had rules in the list given names a   *)
(* rule of the list returned, and stands in the parts of the rules         *)
(* returned wherever the parts of the inlined rules had it.                *)
(***************************************************************************)
C29_PreservedTermsKept ==
  (run = "simplify" /\ simplifyPhase = "simplified") =>
    \A term \in Range(preserved(mainSkip)) :
      /\ term \in NamesOf(builtRules) => term \in NamesOf(simplified)
      /\ LET inlined == SelectSeq(inlineRules(builtRules, preserved(mainSkip)),
                                  LAMBDA r : r.name \in NamesOf(simplified))
         IN \A k \in 1..Len(inlined) : \A j \in 1..Len(inlined[k].parts) :
              inlined[k].parts[j] = term =>
                /\ k <= Len(simplified) /\ j <= Len(simplified[k].parts)
                /\ simplified[k].parts[j] = term

(***************************************************************************)
(* C30.  A conflict between two tokens of which one comes before the other *)
(* in the priority list takePrecedences computed is dropped from the       *)
(* conflict list of buildTokenGroups, also when the order of the two       *)
(* follows only from separate @precedence blocks taken together.           *)
(***************************************************************************)
C30_OrderedTokensDoNotConflict ==
  (run = "precedences" /\ precPhase = "ordered") =>
    \A i, j \in 1..Len(precOrdered) :
      i < j =>
        /\ unresolvedConflicts(precedenceRelations,
                               <<[a |-> precOrdered[i], b |-> precOrdered[j]]>>) = none
        /\ unresolvedConflicts(precedenceRelations,
                               <<[a |-> precOrdered[j], b |-> precOrdered[i]]>>) = none

====
